---- MODULE Spec2Model ----
(***************************************************************************)
(* A model of oss-mcp-plus: the OssService of src/services/oss.service.ts  *)
(* (client cache, upload, copy+delete rename, batch rename, listing,       *)
(* delete) and the upload_to_oss and batch_rename_files tool handlers of   *)
(* src/server.ts, run against an object store that holds at most one       *)
(* object per key.                                                         *)
(*                                                                         *)
(* Names, directories and keys are sequences of one-character strings, so  *)
(* that the regular-expression normalisations of the code are computed.    *)
(* A remote call (head, copy, delete, put) is in flight between the step   *)
(* that issues it and the step that receives its outcome; the code between *)
(* two awaits is one step.  A remote call that throws has had no effect on *)
(* the store; head throws exactly when the key holds no object.            *)
(***************************************************************************)
EXTENDS Integers, Sequences, FiniteSets, TLC

VARIABLES
  store,        \* the bucket: key -> content, Absent when no object
  clients,      \* OssService.clients: config name -> client instance, NoClient when not cached
  constructed,  \* history: number of `new OSS(...)` that returned, per config name
  pc,           \* per invocation: the await it is suspended at
  op,           \* per invocation: the operation it runs
  rules,        \* batch rename: renameRules
  fileNames,    \* batch delete: fileNames
  pattern,      \* listFiles: pattern
  directory,    \* batch rename: directory
  configName,   \* the configName argument
  dryRun,       \* batch rename: dryRun
  idx,          \* batch rename: position of the for-loop in rules (1-based)
  results,      \* batch rename: the results array being accumulated
  oldKey,       \* renameFile: normalizedOldKey
  newKey,       \* renameFile: normalizedNewKey
  client,       \* the client instance the running operation obtained
  res,          \* the value the service method resolved to
  inflight,     \* per invocation: remote calls issued and not yet returned
  calls,        \* history: remote calls issued by the running service method
  thrown,       \* history: the remote call of the running service method that threw
  attempted,    \* history: number of renameFile calls the running batch has made
  store0,       \* history: the store when the running service method was entered
  clients0,     \* history: the client cache when the invocation began
  bucket0,      \* history: the store when the invocation began
  response,     \* the tool response handed back to the caller
  download,     \* per invocation: the requests, promise and timer of download_file
  files,        \* the local file system: path -> content, NoFile when nothing is there
  images,       \* compress_images: images
  engine,       \* compress_images: engine
  options,      \* compress_images: outputFormat, deleteOriginal, ossDirectory
  sseTransport, \* OssMcpServer.sseTransport: the transport of an SSE client, or null
  connected,    \* the SSE clients whose GET /sse request has not been closed
  posted,       \* history: the answer to the last POST /messages
  upload        \* upload_to_oss: filePath, fileName, and whether the file exists

vars == <<store, clients, constructed, pc, op, rules, fileNames, pattern, directory,
          configName,
          dryRun, idx, results, oldKey, newKey, client, res, inflight, calls,
          thrown, attempted, store0,
          clients0, bucket0, response, download, files, images,
          engine, options, sseTransport, connected, posted, upload>>

\* the state download_file works on
downloadVars == <<download, files>>

\* the arguments of compress_images
compressVars == <<images, engine, options>>

\* the state of the HTTP server
httpVars == <<sseTransport, connected, posted>>

\* the state of OssService and of the service method an invocation runs
serviceVars == <<store, clients, constructed, rules, fileNames, pattern, directory,
                 configName,
                 dryRun, idx, results, oldKey, newKey, client, res, inflight, calls,
                 thrown, attempted, store0,
                 clients0, bucket0, upload>>

(***************************************************************************)
(* Bounds and input universes.                                             *)
(***************************************************************************)
MaxRules == 2

Procs == {1, 2}

\* directories a caller may pass: the root, and "/d/" (normalised to "d")
Dirs == { <<>>, <<"/", "d", "/">> }

\* file names a caller may pass; "/a" starts with a separator
Names == { <<"a">>, <<"b">>, <<"/", "a">> }

ConfigNames == {"default", "broken", "missing"}

NoClient == 0
NoError == <<>>
NoKey == <<>>
\* listFiles called without a pattern (or with the empty string)
NoPattern == <<>>

NoResult == [success |-> FALSE, error |-> <<"pending">>]

(***************************************************************************)
(* String normalisation.                                                   *)
(***************************************************************************)
RECURSIVE StripLeading(_)
\* s.replace(/^\/+/, '')
StripLeading(s) ==
  IF s # <<>> /\ Head(s) = "/" THEN StripLeading(Tail(s)) ELSE s

RECURSIVE StripTrailing(_)
\* the /\/+$/ alternative of s.replace(/^\/+|\/+$/g, '')
StripTrailing(s) ==
  IF s # <<>> /\ s[Len(s)] = "/" THEN StripTrailing(SubSeq(s, 1, Len(s) - 1)) ELSE s

\* directory.replace(/^\/+|\/+$/g, '')
NormalizeDir(d) == StripTrailing(StripLeading(d))

\* const dirPrefix = normalizedDir ? `${normalizedDir}/` : ''
DirPrefix(d) == IF NormalizeDir(d) # <<>> THEN NormalizeDir(d) \o <<"/">> ELSE <<>>

\* the key batchRenameFiles composes for a name, as renameFile normalises it
RenameKey(d, n) == StripLeading(DirPrefix(d) \o n)

Keys == { RenameKey(d, n) : d \in Dirs, n \in Names }

\* no object under a key
Absent == <<>>

\* an object's content is identified by the key it was first stored under
Contents == Keys

\* the keys batchRenameFiles can compose in directory d
KeysIn(d) == { RenameKey(d, n) : n \in Names }

Populated(S) == [k \in Keys |-> IF k \in S THEN k ELSE Absent]

\* the stores a run may start from: any set of keys populated, each object
\* holding the content named after its key
InitStores == { Populated(S) : S \in SUBSET Keys }

Rules == [oldName : Names, newName : Names]

RuleLists == UNION { [1..n -> Rules] : n \in 0..MaxRules }

(***************************************************************************)
(* Configuration (config/oss.config.ts is not part of the sources).        *)
(***************************************************************************)
\* getOssConfig(configName): a configuration exists for these names
getOssConfig(name) == name \in {"default", "broken"}

\* new OSS({...}) throws for the configuration named "broken"
ConstructorThrows(name) == name = "broken"

RECURSIVE SumOver(_, _)
SumOver(f, S) ==
  IF S = {} THEN 0
  ELSE LET x == CHOOSE y \in S : TRUE IN f[x] + SumOver(f, S \ {x})

\* the identity of the next client instance `new OSS` creates
NewInstance == SumOver(constructed, ConfigNames) + 1

(***************************************************************************)
(* OssService.getClient: the instance returned (NoClient for null), and    *)
(* the cache and construction history after the call.                      *)
(***************************************************************************)
CacheHitNever(name) == FALSE

\* if (this.clients.has(configName))
CacheHit(name) == clients[name] # NoClient

getClientResult(name) ==
  IF CacheHit(name) THEN clients[name]
  ELSE IF ~getOssConfig(name) THEN NoClient
  ELSE IF ConstructorThrows(name) THEN NoClient
  ELSE NewInstance

getClientCacheBeforeConstruct(name) ==
  IF CacheHit(name) \/ ~getOssConfig(name) THEN clients
  ELSE [clients EXCEPT ![name] = NewInstance]

\* this.clients.set(configName, client), reached only past `new OSS`
getClientCache(name) ==
  IF CacheHit(name) \/ ~getOssConfig(name) \/ ConstructorThrows(name) THEN clients
  ELSE [clients EXCEPT ![name] = NewInstance]

getClientConstructed(name) ==
  IF CacheHit(name) \/ ~getOssConfig(name) \/ ConstructorThrows(name) THEN constructed
  ELSE [constructed EXCEPT ![name] = @ + 1]

(***************************************************************************)
(* The object store's operations.                                          *)
(***************************************************************************)
HeadOkAtEntry(key) == \A p \in {1} : bucket0[p][key] # Absent

\* client.head(key) resolves when the key holds an object, else throws
HeadOk(key) == store[key] # Absent

\* client.copy(to, from): the destination receives the source's content
CopyEffect(s, to, from) == [s EXCEPT ![to] = s[from]]

\* client.delete(key): the key holds no object afterwards
DeleteEffect(s, key) == [s EXCEPT ![key] = Absent]

Call(name, key) == <<name, key>>

Failure(kind, detail) == [success |-> FALSE, error |-> <<kind, detail>>]
Success == [success |-> TRUE, error |-> NoError]

\* no compress_images invocation is running
NoEngine == "none"

\* no upload_to_oss invocation is running
NoUpload == [filePath |-> <<>>, fileName |-> <<>>, exists |-> FALSE]

\* this.sseTransport is null
NoTransport == 0

\* no POST /messages has been answered
NoPost == [status |-> "none", clients |-> {}]

\* an optional argument that was not passed (undefined)
Undefined == "undefined"

\* compress_images called with its required arguments only
NoOptions ==
  [outputFormat |-> Undefined, deleteOriginal |-> FALSE, ossDirectory |-> Undefined]

\* download_file: no fileName argument
NoFileName == ""

\* the fileName arguments a caller may pass
FileNames == {NoFileName, "f"}

\* finalFileName: the argument, or else the base name of the URL's path
FinalFileName(fileName) == IF fileName = NoFileName THEN "u" ELSE fileName

\* the paths a download may be saved under
Targets == { FinalFileName(n) : n \in FileNames }

\* nothing exists at a path
NoFile == "none"

\* no download has been started
NoDownload ==
  [req1 |-> "none", req2 |-> "none", promise |-> "none", requests |-> <<>>,
   status1 |-> 0, status2 |-> 0, location |-> "none", escaped |-> FALSE,
   timedOut |-> FALSE, wrote |-> FALSE, path |-> NoFile, before |-> NoFile]

\* filePath = path.join(targetDir, finalFileName)
filePath(p) == download[p].path

(***************************************************************************)
(* Initial state: any initial store, empty cache, no invocation running.    *)
(***************************************************************************)
InitService ==
  /\ clients = [n \in ConfigNames |-> NoClient]
  /\ constructed = [n \in ConfigNames |-> 0]
  /\ pc = [p \in Procs |-> "idle"]
  /\ op = [p \in Procs |-> "none"]
  /\ rules = [p \in Procs |-> <<>>]
  /\ fileNames = [p \in Procs |-> <<>>]
  /\ pattern = [p \in Procs |-> NoPattern]
  /\ directory = [p \in Procs |-> <<>>]
  /\ configName = [p \in Procs |-> "default"]
  /\ dryRun = [p \in Procs |-> FALSE]
  /\ idx = [p \in Procs |-> 0]
  /\ results = [p \in Procs |-> <<>>]
  /\ oldKey = [p \in Procs |-> NoKey]
  /\ newKey = [p \in Procs |-> NoKey]
  /\ client = [p \in Procs |-> NoClient]
  /\ res = [p \in Procs |-> NoResult]
  /\ inflight = [p \in Procs |-> 0]
  /\ calls = [p \in Procs |-> <<>>]
  /\ thrown = [p \in Procs |-> "none"]
  /\ attempted = [p \in Procs |-> 0]
  /\ store0 = [p \in Procs |-> store]
  /\ clients0 = [p \in Procs |-> clients]
  /\ bucket0 = [p \in Procs |-> store]
  /\ response = [p \in Procs |-> <<>>]
  /\ download = [p \in Procs |-> NoDownload]
  /\ images = [p \in Procs |-> <<>>]
  /\ engine = [p \in Procs |-> NoEngine]
  /\ options = [p \in Procs |-> NoOptions]
  /\ sseTransport = NoTransport
  /\ connected = {}
  /\ posted = NoPost
  /\ upload = [p \in Procs |-> NoUpload]

Init ==
  /\ store \in InitStores
  /\ files = [t \in Targets |-> NoFile]
  /\ InitService

(***************************************************************************)
(* Helpers for the per-invocation variables.                               *)
(***************************************************************************)
Set(f, p, v) == [f EXCEPT ![p] = v]

Idle(p) == pc[p] = "idle"

\* the arguments of the running invocation
input == <<op, rules, fileNames, pattern, directory, configName, dryRun, upload>>

\* one line of the batch_rename_files result text
ResultLine(r) == [ok |-> r.success, oldName |-> r.oldName, newName |-> r.newName,
                  error |-> IF r.success THEN NoError ELSE r.error]

CountWhere(seq, want) == Cardinality({ i \in 1..Len(seq) : seq[i].success = want })

\* the content the batch_rename_files handler returns for a results array
RenameResponse(preview, cn, rs) ==
  [isError |-> FALSE,
   preview |-> preview,
   config |-> cn,
   successCount |-> CountWhere(rs, TRUE),
   failCount |-> CountWhere(rs, FALSE),
   lines |-> [i \in 1..Len(rs) |-> ResultLine(rs[i])]]

\* results = renameRules.map(rule => ({oldName, newName, success: true}))
DryRunResults(rs) ==
  [i \in 1..Len(rs) |->
     [oldName |-> rs[i].oldName, newName |-> rs[i].newName,
      success |-> TRUE, error |-> NoError]]

(***************************************************************************)
(* batch_rename_files handler.                                             *)
(***************************************************************************)
PreviewBranchNever(dr) == FALSE

\* if (dryRun)
PreviewBranch(dr) == dr

\* the handler is entered: its arguments are bound
Enter(p, d, rs, cn, dr) ==
  /\ Idle(p)
  /\ op' = Set(op, p, "rename")
  /\ directory' = Set(directory, p, d)
  /\ rules' = Set(rules, p, rs)
  /\ configName' = Set(configName, p, cn)
  /\ dryRun' = Set(dryRun, p, dr)
  /\ clients0' = Set(clients0, p, clients)
  /\ bucket0' = Set(bucket0, p, store)
  /\ store0' = Set(store0, p, store)
  /\ calls' = Set(calls, p, <<>>)
  /\ thrown' = Set(thrown, p, "none")
  /\ attempted' = Set(attempted, p, 0)
  /\ UNCHANGED <<fileNames, pattern, upload>>

\* preview: the handler maps the rules to results and answers, with no await
BatchRenameDryRun(p, d, rs, cn, dr) ==
  /\ PreviewBranch(dr)
  /\ Enter(p, d, rs, cn, dr)
  /\ results' = Set(results, p, DryRunResults(rs))
  /\ response' = Set(response, p, RenameResponse(dr, cn, DryRunResults(rs)))
  /\ pc' = Set(pc, p, "done")
  /\ UNCHANGED <<store, clients, constructed, idx, oldKey, newKey, client, res, inflight>>
  /\ UNCHANGED <<downloadVars, compressVars, httpVars>>

\* real run: the handler calls ossService.batchRenameFiles
BatchRenameBegin(p, d, rs, cn, dr) ==
  /\ ~PreviewBranch(dr)
  /\ Enter(p, d, rs, cn, dr)
  /\ results' = Set(results, p, <<>>)
  /\ idx' = Set(idx, p, 1)
  /\ pc' = Set(pc, p, "loop")
  /\ UNCHANGED <<store, clients, constructed, oldKey, newKey, client, res, inflight, response>>
  /\ UNCHANGED <<downloadVars, compressVars, httpVars>>

(***************************************************************************)
(* OssService.batchRenameFiles and OssService.renameFile.                  *)
(***************************************************************************)
LoopReadyNoAwait(p) == pc[p] \in {"loop", "head_old", "head_new", "copy", "delete"}

\* `await this.renameFile(...)`: the loop takes its next rule only when the
\* previous renameFile has resolved and its result has been pushed
LoopReady(p) == pc[p] = "loop"

LoopOverFailFast(p) ==
  \/ idx[p] > Len(rules[p])
  \/ results[p] # <<>> /\ ~results[p][Len(results[p])].success

\* for (const rule of rules) has no rule left
LoopOver(p) == idx[p] > Len(rules[p])

\* for (const rule of rules): compose the keys, enter renameFile, which gets
\* the client and issues head(normalizedOldKey)
StartRule(p) ==
  /\ op[p] = "rename"
  /\ LoopReady(p)
  /\ ~LoopOver(p)
  /\ LET rule == rules[p][idx[p]]
         rawOld == DirPrefix(directory[p]) \o rule.oldName
         rawNew == DirPrefix(directory[p]) \o rule.newName
         c == getClientResult(configName[p])
     IN /\ clients' = getClientCache(configName[p])
        /\ constructed' = getClientConstructed(configName[p])
        /\ client' = Set(client, p, c)
        /\ store0' = Set(store0, p, store)
        /\ thrown' = Set(thrown, p, "none")
        /\ attempted' = Set(attempted, p, attempted[p] + 1)
        /\ IF c = NoClient
           THEN /\ res' = Set(res, p, Failure("ConfigNotFound", configName[p]))
                /\ calls' = Set(calls, p, <<>>)
                /\ pc' = Set(pc, p, "rf_ret")
                /\ UNCHANGED <<oldKey, newKey, inflight>>
           ELSE /\ oldKey' = Set(oldKey, p, StripLeading(rawOld))
                /\ newKey' = Set(newKey, p, StripLeading(rawNew))
                /\ calls' = Set(calls, p, <<Call("head", StripLeading(rawOld))>>)
                /\ inflight' = Set(inflight, p, inflight[p] + 1)
                /\ res' = Set(res, p, NoResult)
                /\ pc' = Set(pc, p, "head_old")
  /\ UNCHANGED <<store, input, idx, results, clients0, bucket0, response>>
  /\ UNCHANGED <<downloadVars, compressVars, httpVars>>

SourceExistsAlways(p) == TRUE

\* `await client.head(normalizedOldKey)` did not throw
SourceExists(p) == HeadOk(oldKey[p])

\* head(normalizedOldKey) returned or threw
HeadOldReturn(p) ==
  /\ pc[p] = "head_old"
  /\ IF SourceExists(p)
     THEN /\ calls' = Set(calls, p, Append(calls[p], Call("head", newKey[p])))
          /\ pc' = Set(pc, p, "head_new")
          /\ UNCHANGED <<res, inflight>>
     ELSE /\ res' = Set(res, p, Failure("SourceNotFound", oldKey[p]))
          /\ inflight' = Set(inflight, p, inflight[p] - 1)
          /\ pc' = Set(pc, p, "rf_ret")
          /\ UNCHANGED calls
  /\ UNCHANGED <<store, clients, constructed, input, idx, results, oldKey, newKey,
                 client, thrown, attempted, store0,
                 clients0, bucket0, response>>
  /\ UNCHANGED <<downloadVars, compressVars, httpVars>>

DestinationTakenUnchecked(p) == FALSE

\* head(normalizedNewKey) resolved and normalizedOldKey !== normalizedNewKey
DestinationTaken(p) == HeadOk(newKey[p]) /\ oldKey[p] # newKey[p]

\* head(normalizedNewKey) returned or threw
HeadNewReturn(p) ==
  /\ pc[p] = "head_new"
  /\ IF DestinationTaken(p)
     THEN /\ res' = Set(res, p, Failure("DestinationExists", newKey[p]))
          /\ inflight' = Set(inflight, p, inflight[p] - 1)
          /\ pc' = Set(pc, p, "rf_ret")
          /\ UNCHANGED calls
     ELSE /\ calls' = Set(calls, p, Append(calls[p], Call("copy", newKey[p])))
          /\ pc' = Set(pc, p, "copy")
          /\ UNCHANGED <<res, inflight>>
  /\ UNCHANGED <<store, clients, constructed, input, idx, results, oldKey, newKey,
                 client, thrown, attempted, store0,
                 clients0, bucket0, response>>
  /\ UNCHANGED <<downloadVars, compressVars, httpVars>>

DeletedKeyIsNew(p) == newKey[p]

\* the key of `await client.delete(normalizedOldKey)`
DeletedKey(p) == oldKey[p]

\* copy(normalizedNewKey, normalizedOldKey) returned: delete is issued
CopyReturns(p) ==
  /\ pc[p] = "copy"
  /\ store[oldKey[p]] # Absent
  /\ store' = CopyEffect(store, newKey[p], oldKey[p])
  /\ calls' = Set(calls, p, Append(calls[p], Call("delete", DeletedKey(p))))
  /\ pc' = Set(pc, p, "delete")
  /\ UNCHANGED <<clients, constructed, input, idx, results, oldKey, newKey, client,
                 res, inflight, thrown, attempted, store0,
                 clients0, bucket0, response>>
  /\ UNCHANGED <<downloadVars, compressVars, httpVars>>

CopyThrowsThenDeletes(p) ==
  /\ pc[p] = "copy"
  /\ thrown' = Set(thrown, p, "copy")
  /\ calls' = Set(calls, p, Append(calls[p], Call("delete", oldKey[p])))
  /\ pc' = Set(pc, p, "delete")
  /\ UNCHANGED <<store, clients, constructed, input, idx, results, oldKey, newKey,
                 client, res, inflight, attempted, store0, clients0, bucket0, response>>
  /\ UNCHANGED <<downloadVars, compressVars, httpVars>>

\* copy threw: the outer catch turns it into a failure
CopyThrows(p) ==
  /\ pc[p] = "copy"
  /\ thrown' = Set(thrown, p, "copy")
  /\ res' = Set(res, p, Failure("RenameFailed", "copy"))
  /\ inflight' = Set(inflight, p, inflight[p] - 1)
  /\ pc' = Set(pc, p, "rf_ret")
  /\ UNCHANGED <<store, clients, constructed, input, idx, results, oldKey, newKey,
                 client, calls, attempted, store0,
                 clients0, bucket0, response>>
  /\ UNCHANGED <<downloadVars, compressVars, httpVars>>

\* delete(normalizedOldKey) returned: return { success: true }
DeleteReturns(p) ==
  /\ pc[p] = "delete"
  /\ store' = DeleteEffect(store, DeletedKey(p))
  /\ res' = Set(res, p, Success)
  /\ inflight' = Set(inflight, p, inflight[p] - 1)
  /\ pc' = Set(pc, p, "rf_ret")
  /\ UNCHANGED <<clients, constructed, input, idx, results, oldKey, newKey, client,
                 calls, thrown, attempted, store0,
                 clients0, bucket0, response>>
  /\ UNCHANGED <<downloadVars, compressVars, httpVars>>

StoreAfterCatchRolledBack(p) == DeleteEffect(store, newKey[p])

\* the store once the outer catch has handled a throw of delete: the catch
\* only builds the failure result
StoreAfterCatch(p) == store

CaughtDeleteSwallowed == Success

\* catch (error) { return { success: false, error: `...${error.message}` } }
CaughtDelete == Failure("RenameFailed", "delete")

\* delete threw: the outer catch turns it into a failure
DeleteThrows(p) ==
  /\ pc[p] = "delete"
  /\ thrown' = Set(thrown, p, "delete")
  /\ store' = StoreAfterCatch(p)
  /\ res' = Set(res, p, CaughtDelete)
  /\ inflight' = Set(inflight, p, inflight[p] - 1)
  /\ pc' = Set(pc, p, "rf_ret")
  /\ UNCHANGED <<clients, constructed, input, idx, results, oldKey, newKey, client,
                 calls, attempted, store0,
                 clients0, bucket0, response>>
  /\ UNCHANGED <<downloadVars, compressVars, httpVars>>

\* results.push({oldName, newName, success, error}) once renameFile resolved
PushResult(p) ==
  /\ op[p] = "rename"
  /\ pc[p] = "rf_ret"
  /\ results' = Set(results, p, Append(results[p],
       [oldName |-> rules[p][idx[p]].oldName, newName |-> rules[p][idx[p]].newName,
        success |-> res[p].success, error |-> res[p].error]))
  /\ idx' = Set(idx, p, idx[p] + 1)
  /\ pc' = Set(pc, p, "loop")
  /\ UNCHANGED <<store, clients, constructed, input, oldKey, newKey, client, res,
                 inflight, calls, thrown, attempted, store0,
                 clients0, bucket0, response>>
  /\ UNCHANGED <<downloadVars, compressVars, httpVars>>

\* the loop is over: return results; the handler builds its answer from them
FinishBatch(p) ==
  /\ op[p] = "rename"
  /\ pc[p] = "loop"
  /\ LoopOver(p)
  /\ response' = Set(response, p, RenameResponse(dryRun[p], configName[p], results[p]))
  /\ pc' = Set(pc, p, "done")
  /\ UNCHANGED <<store, clients, constructed, input, idx, results, oldKey, newKey,
                 client, res, inflight, calls, thrown, attempted, store0,
                 clients0, bucket0>>
  /\ UNCHANGED <<downloadVars, compressVars, httpVars>>

\* the response has been delivered; the invocation's locals are gone
Return(p) ==
  /\ pc[p] = "done"
  /\ pc' = Set(pc, p, "idle")
  /\ op' = Set(op, p, "none")
  /\ rules' = Set(rules, p, <<>>)
  /\ fileNames' = Set(fileNames, p, <<>>)
  /\ upload' = Set(upload, p, NoUpload)
  /\ pattern' = Set(pattern, p, NoPattern)
  /\ directory' = Set(directory, p, <<>>)
  /\ configName' = Set(configName, p, "default")
  /\ dryRun' = Set(dryRun, p, FALSE)
  /\ idx' = Set(idx, p, 0)
  /\ results' = Set(results, p, <<>>)
  /\ oldKey' = Set(oldKey, p, NoKey)
  /\ newKey' = Set(newKey, p, NoKey)
  /\ client' = Set(client, p, NoClient)
  /\ res' = Set(res, p, NoResult)
  /\ calls' = Set(calls, p, <<>>)
  /\ thrown' = Set(thrown, p, "none")
  /\ attempted' = Set(attempted, p, 0)
  /\ store0' = Set(store0, p, store)
  /\ clients0' = Set(clients0, p, clients)
  /\ bucket0' = Set(bucket0, p, store)
  /\ response' = Set(response, p, <<>>)
  /\ UNCHANGED <<store, clients, constructed, inflight>>
  /\ UNCHANGED <<downloadVars, compressVars, httpVars>>

(***************************************************************************)
(* upload_to_oss handler and OssService.uploadFile.                        *)
(***************************************************************************)
\* local paths a caller may pass; the empty string is falsy
LocalPaths == { <<>>, <<"t", "/", "a">>, <<"t", "/", "b">> }

\* the fileName argument; <<>> stands for an omitted (or empty) one
UploadNames == { <<>>, <<"b">> }

\* the content of an uploaded local file
LocalContent == <<"f">>

\* path.basename(filePath)
Basename(s) ==
  LET t == StripTrailing(s)
      slashes == { i \in 1..Len(t) : t[i] = "/" }
      last == IF slashes = {} THEN 0 ELSE CHOOSE i \in slashes : \A j \in slashes : j <= i
  IN SubSeq(t, last + 1, Len(t))

\* const actualFileName = fileName || path.basename(filePath)
ActualFileName(fn, fp) == IF fn # <<>> THEN fn ELSE Basename(fp)

OssPathLeadingOnly(td, fn, fp) ==
  IF td # <<>> /\ StripLeading(td) # <<>>
  THEN StripLeading(td) \o <<"/">> \o ActualFileName(fn, fp)
  ELSE ActualFileName(fn, fp)

\* ossPath: the file name, under the normalised target directory when there is one
OssPath(td, fn, fp) ==
  IF td # <<>> /\ NormalizeDir(td) # <<>>
  THEN NormalizeDir(td) \o <<"/">> \o ActualFileName(fn, fp)
  ELSE ActualFileName(fn, fp)

UploadResponse(r) ==
  [isError |-> ~r.success, text |-> IF r.success THEN <<"uploaded">> ELSE r.error]

\* the handler and uploadFile up to the first await (put), or to the answer
\* when the path is empty, the file is missing or no client is available
UploadToOss(p, fp, td, fn, cn, exists) ==
  /\ Idle(p)
  /\ op' = Set(op, p, "upload")
  /\ directory' = Set(directory, p, td)
  /\ upload' = Set(upload, p, [filePath |-> fp, fileName |-> fn, exists |-> exists])
  /\ configName' = Set(configName, p, cn)
  /\ clients0' = Set(clients0, p, clients)
  /\ bucket0' = Set(bucket0, p, store)
  /\ store0' = Set(store0, p, store)
  /\ thrown' = Set(thrown, p, "none")
  /\ IF fp = <<>> \/ ~exists
     THEN /\ response' = Set(response, p,
               [isError |-> TRUE,
                text |-> IF fp = <<>> THEN <<"PathRequired", fp>> ELSE <<"FileNotFound", fp>>])
          /\ pc' = Set(pc, p, "done")
          /\ UNCHANGED <<clients, constructed, client, res, calls, inflight, newKey>>
     ELSE LET c == getClientResult(cn)
          IN /\ clients' = getClientCache(cn)
             /\ constructed' = getClientConstructed(cn)
             /\ client' = Set(client, p, c)
             /\ IF c = NoClient
                THEN /\ res' = Set(res, p, Failure("ConfigNotFound", cn))
                     /\ response' = Set(response, p, UploadResponse(Failure("ConfigNotFound", cn)))
                     /\ pc' = Set(pc, p, "done")
                     /\ UNCHANGED <<calls, inflight, newKey>>
                ELSE /\ newKey' = Set(newKey, p, OssPath(td, fn, fp))
                     /\ calls' = Set(calls, p, <<Call("put", OssPath(td, fn, fp))>>)
                     /\ inflight' = Set(inflight, p, inflight[p] + 1)
                     /\ pc' = Set(pc, p, "put")
                     /\ UNCHANGED <<res, response>>
  /\ UNCHANGED <<store, rules, fileNames, pattern, dryRun, idx, results, oldKey, attempted>>
  /\ UNCHANGED <<downloadVars, compressVars, httpVars>>

\* client.put(ossPath, filePath): the key holds the file's content afterwards
PutEffect(s, key) == [s EXCEPT ![key] = LocalContent]

\* put returned: success with the object's url
PutReturns(p) ==
  /\ pc[p] = "put"
  /\ store' = PutEffect(store, newKey[p])
  /\ res' = Set(res, p, Success)
  /\ response' = Set(response, p, UploadResponse(Success))
  /\ inflight' = Set(inflight, p, inflight[p] - 1)
  /\ pc' = Set(pc, p, "done")
  /\ UNCHANGED <<clients, constructed, input, idx, results, oldKey, newKey, client,
                 calls, thrown, attempted, store0,
                 clients0, bucket0>>
  /\ UNCHANGED <<downloadVars, compressVars, httpVars>>

\* put threw: uploadFile's catch turns it into a failure
PutThrows(p) ==
  /\ pc[p] = "put"
  /\ thrown' = Set(thrown, p, "put")
  /\ res' = Set(res, p, Failure("UploadFailed", "put"))
  /\ response' = Set(response, p, UploadResponse(Failure("UploadFailed", "put")))
  /\ inflight' = Set(inflight, p, inflight[p] - 1)
  /\ pc' = Set(pc, p, "done")
  /\ UNCHANGED <<store, clients, constructed, input, idx, results, oldKey, newKey,
                 client, calls, attempted, store0,
                 clients0, bucket0>>
  /\ UNCHANGED <<downloadVars, compressVars, httpVars>>

(***************************************************************************)
(* OssService.deleteFile.                                                  *)
(***************************************************************************)
\* keys a caller may pass to deleteFile, some with leading separators
DeleteKeys == Keys \cup { <<"/">> \o k : k \in KeysIn(<<>>) }

\* where deleteFile returns to: the caller of the operation, or the loop
\* of batchDeleteFiles
DeleteFileExit(p) == IF op[p] = "bdelete" THEN "df_ret" ELSE "done"

\* deleteFile up to its first await: get the client, issue head(normalizedKey)
DeleteFileEnter(p, key, cn, exit) ==
  /\ store0' = Set(store0, p, store)
  /\ thrown' = Set(thrown, p, "none")
  /\ clients' = getClientCache(cn)
  /\ constructed' = getClientConstructed(cn)
  /\ client' = Set(client, p, getClientResult(cn))
  /\ IF getClientResult(cn) = NoClient
     THEN /\ res' = Set(res, p, Failure("ConfigNotFound", cn))
          /\ pc' = Set(pc, p, exit)
          /\ UNCHANGED <<oldKey, calls, inflight>>
     ELSE /\ oldKey' = Set(oldKey, p, StripLeading(key))
          /\ calls' = Set(calls, p, <<Call("head", StripLeading(key))>>)
          /\ inflight' = Set(inflight, p, inflight[p] + 1)
          /\ res' = Set(res, p, NoResult)
          /\ pc' = Set(pc, p, "del_head")

DeleteFile(p, key, cn) ==
  /\ Idle(p)
  /\ op' = Set(op, p, "delete")
  /\ configName' = Set(configName, p, cn)
  /\ clients0' = Set(clients0, p, clients)
  /\ bucket0' = Set(bucket0, p, store)
  /\ DeleteFileEnter(p, key, cn, "done")
  /\ UNCHANGED <<store, rules, upload, fileNames, pattern, directory, dryRun, idx, results, newKey,
                 attempted, response>>
  /\ UNCHANGED <<downloadVars, compressVars, httpVars>>

\* head(normalizedKey) returned or threw
DeleteHeadReturn(p) ==
  /\ pc[p] = "del_head"
  /\ IF HeadOk(oldKey[p])
     THEN /\ calls' = Set(calls, p, Append(calls[p], Call("delete", oldKey[p])))
          /\ pc' = Set(pc, p, "del_delete")
          /\ UNCHANGED <<res, inflight>>
     ELSE /\ res' = Set(res, p, Failure("FileNotFound", oldKey[p]))
          /\ inflight' = Set(inflight, p, inflight[p] - 1)
          /\ pc' = Set(pc, p, DeleteFileExit(p))
          /\ UNCHANGED calls
  /\ UNCHANGED <<store, clients, constructed, input, idx, results, oldKey, newKey,
                 client, thrown, attempted, store0,
                 clients0, bucket0, response>>
  /\ UNCHANGED <<downloadVars, compressVars, httpVars>>

\* delete(normalizedKey) returned: return { success: true }
DeleteFileReturns(p) ==
  /\ pc[p] = "del_delete"
  /\ store' = DeleteEffect(store, oldKey[p])
  /\ res' = Set(res, p, Success)
  /\ inflight' = Set(inflight, p, inflight[p] - 1)
  /\ pc' = Set(pc, p, DeleteFileExit(p))
  /\ UNCHANGED <<clients, constructed, input, idx, results, oldKey, newKey, client,
                 calls, thrown, attempted, store0,
                 clients0, bucket0, response>>
  /\ UNCHANGED <<downloadVars, compressVars, httpVars>>

\* delete threw: deleteFile's catch turns it into a failure
DeleteFileThrows(p) ==
  /\ pc[p] = "del_delete"
  /\ thrown' = Set(thrown, p, "delete")
  /\ res' = Set(res, p, Failure("DeleteFailed", "delete"))
  /\ inflight' = Set(inflight, p, inflight[p] - 1)
  /\ pc' = Set(pc, p, DeleteFileExit(p))
  /\ UNCHANGED <<store, clients, constructed, input, idx, results, oldKey, newKey,
                 client, calls, attempted, store0,
                 clients0, bucket0, response>>
  /\ UNCHANGED <<downloadVars, compressVars, httpVars>>

(***************************************************************************)
(* OssService.batchDeleteFiles: deleteFile for each name in turn.          *)
(***************************************************************************)
MaxDeletes == 2

\* the fileNames arrays a caller may pass; a name may occur twice
DeleteLists ==
  UNION { [1..n -> Names] : n \in 1..MaxDeletes }

\* batchDeleteFiles is entered: results = []
BatchDeleteFiles(p, names, d, cn) ==
  /\ Idle(p)
  /\ op' = Set(op, p, "bdelete")
  /\ fileNames' = Set(fileNames, p, names)
  /\ directory' = Set(directory, p, d)
  /\ configName' = Set(configName, p, cn)
  /\ idx' = Set(idx, p, 1)
  /\ results' = Set(results, p, <<>>)
  /\ clients0' = Set(clients0, p, clients)
  /\ bucket0' = Set(bucket0, p, store)
  /\ store0' = Set(store0, p, store)
  /\ calls' = Set(calls, p, <<>>)
  /\ thrown' = Set(thrown, p, "none")
  /\ pc' = Set(pc, p, "bd_loop")
  /\ UNCHANGED <<store, clients, constructed, rules, upload, pattern, dryRun, oldKey,
                 newKey, client, res, inflight, attempted, response>>
  /\ UNCHANGED <<downloadVars, compressVars, httpVars>>

\* for (const fileName of fileNames): compose the key, enter deleteFile
BatchDeleteCall(p) ==
  /\ op[p] = "bdelete"
  /\ pc[p] = "bd_loop"
  /\ idx[p] <= Len(fileNames[p])
  /\ DeleteFileEnter(p, DirPrefix(directory[p]) \o fileNames[p][idx[p]],
                     configName[p], "df_ret")
  /\ attempted' = Set(attempted, p, attempted[p] + 1)
  /\ UNCHANGED <<store, input, idx, results, newKey, clients0, bucket0, response>>
  /\ UNCHANGED <<downloadVars, compressVars, httpVars>>

\* deleteFile resolved: results.push({ fileName, success, error })
BatchDeletePush(p) ==
  /\ op[p] = "bdelete"
  /\ pc[p] = "df_ret"
  /\ results' = Set(results, p, Append(results[p],
       [fileName |-> fileNames[p][idx[p]], success |-> res[p].success,
        error |-> res[p].error]))
  /\ idx' = Set(idx, p, idx[p] + 1)
  /\ pc' = Set(pc, p, "bd_loop")
  /\ UNCHANGED <<store, clients, constructed, input, oldKey, newKey, client, res,
                 inflight, calls, thrown, attempted, store0,
                 clients0, bucket0, response>>
  /\ UNCHANGED <<downloadVars, compressVars, httpVars>>

\* the loop is over: return results
BatchDeleteFinish(p) ==
  /\ op[p] = "bdelete"
  /\ pc[p] = "bd_loop"
  /\ idx[p] > Len(fileNames[p])
  /\ res' = Set(res, p, results[p])
  /\ pc' = Set(pc, p, "done")
  /\ UNCHANGED <<store, clients, constructed, input, idx, results, oldKey, newKey,
                 client, inflight, calls, thrown, attempted, store0,
                 clients0, bucket0,
                 response>>
  /\ UNCHANGED <<downloadVars, compressVars, httpVars>>

(***************************************************************************)
(* The pattern filter of listFiles (and of list_directory_files): the      *)
(* pattern is rewritten into the source of a regular expression, which is  *)
(* compiled with the flag 'i' and tested against the whole name.           *)
(***************************************************************************)
\* String.prototype.replace(/c/g, r) for a one-character c
RECURSIVE ReplaceAll(_, _, _)
ReplaceAll(s, c, r) ==
  IF s = <<>> THEN <<>>
  ELSE (IF Head(s) = c THEN r ELSE <<Head(s)>>) \o ReplaceAll(Tail(s), c, r)

\* pattern.replace(/\./g, '\\.').replace(/\*/g, '.*').replace(/\?/g, '.')
RegexSource(pat) ==
  ReplaceAll(ReplaceAll(ReplaceAll(pat, ".", <<"\\", ".">>), "*", <<".", "*">>),
             "?", <<".">>)

\* what stands for the SyntaxError new RegExp throws
SyntaxError == <<[any |-> FALSE, ch |-> "", q |-> "SyntaxError"]>>

\* new RegExp(source): the atoms of the expression, each with its
\* quantifier; SyntaxError when a quantifier has nothing to repeat
RECURSIVE Compile(_, _)
Compile(src, atoms) ==
  IF src = <<>> THEN atoms
  ELSE IF Head(src) \in {"*", "+"}
  THEN IF atoms = <<>> \/ atoms[Len(atoms)].q # "one" THEN SyntaxError
       ELSE Compile(Tail(src),
              [atoms EXCEPT ![Len(atoms)].q = IF Head(src) = "*" THEN "star" ELSE "plus"])
  ELSE IF Head(src) = "\\"
  THEN IF Len(src) < 2 THEN SyntaxError
       ELSE Compile(Tail(Tail(src)), Append(atoms, [any |-> FALSE, ch |-> src[2], q |-> "one"]))
  ELSE Compile(Tail(src),
         Append(atoms, [any |-> Head(src) = ".", ch |-> Head(src), q |-> "one"]))

\* the flag 'i': letters are compared without regard to case
Lower(c) == CASE c = "A" -> "a" [] c = "B" -> "b" [] OTHER -> c

AtomMatches(atom, c) == atom.any \/ Lower(atom.ch) = Lower(c)

\* the atoms, anchored at both ends, match all of s
RECURSIVE MatchAll(_, _)
MatchAll(atoms, s) ==
  IF atoms = <<>> THEN s = <<>>
  ELSE LET atom == Head(atoms) IN
    CASE atom.q = "one" ->
           s # <<>> /\ AtomMatches(atom, Head(s)) /\ MatchAll(Tail(atoms), Tail(s))
      [] atom.q = "star" ->
           \/ MatchAll(Tail(atoms), s)
           \/ s # <<>> /\ AtomMatches(atom, Head(s)) /\ MatchAll(atoms, Tail(s))
      [] atom.q = "plus" ->
           /\ s # <<>>
           /\ AtomMatches(atom, Head(s))
           /\ MatchAll(<<[atom EXCEPT !.q = "star"]>> \o Tail(atoms), Tail(s))

\* new RegExp(...) throws
RegexThrows(pat) == Compile(RegexSource(pat), <<>>) = SyntaxError

\* regex.test(fileName)
RegexTest(pat, fileName) == MatchAll(Compile(RegexSource(pat), <<>>), fileName)

(***************************************************************************)
(* OssService.listFiles.                                                   *)
(***************************************************************************)
IsPrefix(pre, s) == Len(pre) <= Len(s) /\ SubSeq(s, 1, Len(pre)) = pre

\* the part of a key after the listing prefix
AfterPrefix(pre, k) == SubSeq(k, Len(pre) + 1, Len(k))

\* 'max-keys': 1000
MaxKeys == 1000

Digit(i) == <<"0", "1", "2", "3", "4", "5", "6", "7", "8", "9">>[i + 1]

\* the numbered objects "d/n0001", "d/n0002", ... a bucket may hold
NumberedKey(i) ==
  <<"d", "/", "n", Digit((i \div 1000) % 10), Digit((i \div 100) % 10),
    Digit((i \div 10) % 10), Digit(i % 10)>>

IsNumbered(k) == Len(k) = 7 /\ SubSeq(k, 1, 3) = <<"d", "/", "n">>

\* the objects list({prefix, delimiter: '/'}) finds: those under the prefix
\* whose remaining name holds no further separator
ListedObjects(pre) ==
  { k \in DOMAIN store :
      /\ store[k] # Absent
      /\ IsPrefix(pre, k)
      /\ \A i \in 1..Len(AfterPrefix(pre, k)) : AfterPrefix(pre, k)[i] # "/" }

Perms(S) ==
  { f \in [1..Cardinality(S) -> S] : \A i, j \in 1..Cardinality(S) : i # j => f[i] # f[j] }

\* the orders in which the store may return them: the named objects in any
\* order, then the numbered ones in ascending order
ListOrders(pre) ==
  LET objs == ListedObjects(pre)
      nums == { k \in objs : IsNumbered(k) }
      numbered == IF nums = {} THEN <<>>
                  ELSE SelectSeq([i \in 1..(MaxKeys + 1) |-> NumberedKey(i)],
                                 LAMBDA k : k \in nums)
  IN { perm \o numbered : perm \in Perms(objs \ nums) }

\* result.objects: one page of at most max-keys objects; listFiles asks
\* for no further page
ListPage(objs) == SubSeq(objs, 1, IF Len(objs) < MaxKeys THEN Len(objs) ELSE MaxKeys)

\* obj.name.endsWith('/')
EndsWithSeparator(k) == k # <<>> /\ k[Len(k)] = "/"

\* the file names of the loop: directory entries and empty names skipped,
\* the prefix removed
FileNamesOf(objs, pre) ==
  LET kept == SelectSeq(objs, LAMBDA k : ~EndsWithSeparator(k) /\ AfterPrefix(pre, k) # <<>>)
  IN [i \in 1..Len(kept) |-> AfterPrefix(pre, kept[i])]

\* the collation weights String.prototype.localeCompare compares by:
\* punctuation before digits before letters, letters alphabetically
\* whatever their case
Primary(c) ==
  CASE c = "." -> 1 [] c = "/" -> 2 [] c = "+" -> 3
    [] c = "0" -> 10 [] c = "1" -> 11 [] c = "2" -> 12 [] c = "3" -> 13 [] c = "4" -> 14
    [] c = "5" -> 15 [] c = "6" -> 16 [] c = "7" -> 17 [] c = "8" -> 18 [] c = "9" -> 19
    [] c \in {"a", "A"} -> 20 [] c \in {"b", "B"} -> 21 [] c = "d" -> 23
    [] c = "n" -> 33 [] c = "s" -> 38

\* at equal letters a lower-case letter sorts before its upper-case form
Tertiary(c) == IF c \in {"A", "B"} THEN 1 ELSE 0

RECURSIVE LexLess(_, _)
LexLess(x, y) ==
  IF y = <<>> THEN FALSE
  ELSE IF x = <<>> THEN TRUE
  ELSE Head(x) < Head(y) \/ (Head(x) = Head(y) /\ LexLess(Tail(x), Tail(y)))

LocaleLessNever(a, b) == FALSE

\* a.name.localeCompare(b.name) < 0
LocaleLess(a, b) ==
  LET pa == [i \in 1..Len(a) |-> Primary(a[i])]
      pb == [i \in 1..Len(b) |-> Primary(b[i])]
      ta == [i \in 1..Len(a) |-> Tertiary(a[i])]
      tb == [i \in 1..Len(b) |-> Tertiary(b[i])]
  IN LexLess(pa, pb) \/ (pa = pb /\ LexLess(ta, tb))

\* the value listFiles resolves to for the objects the store returned
ListResult(objs, pre, pat) ==
  LET names == FileNamesOf(ListPage(objs), pre)
  IN IF pat # NoPattern /\ names # <<>> /\ RegexThrows(pat)
     THEN Failure("ListFailed", "regex")
     ELSE [success |-> TRUE, error |-> NoError,
           files |-> SortSeq(IF pat = NoPattern THEN names
                             ELSE SelectSeq(names, LAMBDA n : RegexTest(pat, n)),
                             LocaleLess)]

\* listFiles up to its first await: get the client, issue list
ListFiles(p, d, cn, pat) ==
  /\ Idle(p)
  /\ pattern' = Set(pattern, p, pat)
  /\ op' = Set(op, p, "list")
  /\ directory' = Set(directory, p, d)
  /\ configName' = Set(configName, p, cn)
  /\ clients0' = Set(clients0, p, clients)
  /\ bucket0' = Set(bucket0, p, store)
  /\ store0' = Set(store0, p, store)
  /\ thrown' = Set(thrown, p, "none")
  /\ clients' = getClientCache(cn)
  /\ constructed' = getClientConstructed(cn)
  /\ client' = Set(client, p, getClientResult(cn))
  /\ IF getClientResult(cn) = NoClient
     THEN /\ res' = Set(res, p, Failure("ConfigNotFound", cn))
          /\ pc' = Set(pc, p, "done")
          /\ UNCHANGED <<calls, inflight>>
     ELSE /\ calls' = Set(calls, p, <<Call("list", DirPrefix(d))>>)
          /\ inflight' = Set(inflight, p, inflight[p] + 1)
          /\ res' = Set(res, p, NoResult)
          /\ pc' = Set(pc, p, "list")
  /\ UNCHANGED <<store, rules, upload, fileNames, dryRun, idx, results, oldKey, newKey, attempted,
                 response>>
  /\ UNCHANGED <<downloadVars, compressVars, httpVars>>

\* list returned: return { success: true, files }
ListReturns(p) ==
  /\ pc[p] = "list"
  /\ \E objs \in ListOrders(DirPrefix(directory[p])) :
       res' = Set(res, p, ListResult(objs, DirPrefix(directory[p]), pattern[p]))
  /\ inflight' = Set(inflight, p, inflight[p] - 1)
  /\ pc' = Set(pc, p, "done")
  /\ UNCHANGED <<store, clients, constructed, input, idx, results, oldKey, newKey,
                 client, calls, thrown, attempted, store0,
                 clients0, bucket0, response>>
  /\ UNCHANGED <<downloadVars, compressVars, httpVars>>

\* list threw: listFiles' catch turns it into a failure
ListThrows(p) ==
  /\ pc[p] = "list"
  /\ thrown' = Set(thrown, p, "list")
  /\ res' = Set(res, p, Failure("ListFailed", "list"))
  /\ inflight' = Set(inflight, p, inflight[p] - 1)
  /\ pc' = Set(pc, p, "done")
  /\ UNCHANGED <<store, clients, constructed, input, idx, results, oldKey, newKey,
                 client, calls, attempted, store0,
                 clients0, bucket0, response>>
  /\ UNCHANGED <<downloadVars, compressVars, httpVars>>

(***************************************************************************)
(* The download_file handler.  The first request carries the 60-second     *)
(* timeout; a 301/302 response with a Location header is followed by one   *)
(* further request, made with the header's value as it is.  http.get       *)
(* throws on a value that is not an absolute URL.  The first response of a *)
(* redirect is never read, so its socket stays open, and its timeout       *)
(* armed, until the server closes it.  The code after `await` runs in the  *)
(* step that settles the promise.                                          *)
(***************************************************************************)
Statuses == {200, 301, 302, 404}

\* the Location header of a response: none, an absolute URL, a relative one
Locations == {"none", "absolute", "relative"}

\* response.statusCode === 301 || response.statusCode === 302
IsRedirect(status) == status = 301 \/ status = 302

DownloadError(kind) == [isError |-> TRUE, text |-> <<kind>>]
DownloadSuccess(content) == [isError |-> FALSE, text |-> <<"saved", content>>]

\* resolve(): if the handler is still waiting it stats the file and answers
ResolvePromise(p, fs) ==
  IF pc[p] = "dl_wait"
  THEN /\ pc' = Set(pc, p, "done")
       /\ response' = Set(response, p,
            IF fs[filePath(p)] = NoFile THEN DownloadError("StatFailed")
            ELSE DownloadSuccess(fs[filePath(p)]))
  ELSE UNCHANGED <<pc, response>>

\* reject(reason): if the handler is still waiting its catch answers
RejectPromise(p, reason) ==
  IF pc[p] = "dl_wait"
  THEN /\ pc' = Set(pc, p, "done")
       /\ response' = Set(response, p, DownloadError(reason))
  ELSE UNCHANGED <<pc, response>>

Settled(d, outcome) == IF d.promise = "pending" THEN outcome ELSE d.promise

\* fs.unlink(filePath, () => {})
Unlink(fs, path) == [fs EXCEPT ![path] = NoFile]

\* fs.createWriteStream(filePath)
CreateWriteStream(fs, path) == [fs EXCEPT ![path] = "partial"]

\* the stream finished: the file holds the body, unless it was unlinked
Finished(fs, path, body) ==
  IF fs[path] = "partial" THEN [fs EXCEPT ![path] = body] ELSE fs

\* filePath is computed: the directory check passed and a file name was
\* given or could be taken from the URL
PathKnown(fileName, urlOk, dirOk) == dirOk /\ (urlOk \/ fileName # NoFileName)

\* the throw that ends the handler before any request is made: the target
\* is not a directory; else no fileName was given and the URL cannot be
\* parsed for one; else the file exists; else `new URL(url)` throws
EarlyError(fileName, urlOk, dirOk) ==
  IF ~dirOk THEN "NotADirectory"
  ELSE IF ~urlOk /\ fileName = NoFileName THEN "InvalidUrl"
  ELSE IF files[FinalFileName(fileName)] # NoFile THEN "FileExists"
  ELSE "InvalidUrl"

\* the handler up to `await new Promise`: directory, file name, existence
\* check, first request sent
DownloadFile(p, fileName, urlOk, dirOk) ==
  /\ Idle(p)
  /\ op' = Set(op, p, "download")
  /\ IF ~dirOk \/ ~urlOk \/ files[FinalFileName(fileName)] # NoFile
     THEN /\ response' = Set(response, p, DownloadError(EarlyError(fileName, urlOk, dirOk)))
          /\ pc' = Set(pc, p, "done")
          /\ download' = Set(download, p,
               IF ~PathKnown(fileName, urlOk, dirOk)
               THEN NoDownload
               ELSE [NoDownload EXCEPT !.path = FinalFileName(fileName),
                                       !.before = files[FinalFileName(fileName)]])
     ELSE /\ download' = Set(download, p,
               [NoDownload EXCEPT !.req1 = "sent", !.promise = "pending",
                                  !.requests = <<"url">>,
                                  !.path = FinalFileName(fileName)])
          /\ pc' = Set(pc, p, "dl_wait")
          /\ UNCHANGED response
  /\ UNCHANGED <<serviceVars, compressVars, httpVars, files>>

\* the callback of the first request: redirect, error status, or body
FirstResponse(p, status, loc) ==
  /\ download[p].req1 = "sent"
  /\ LET d == [download[p] EXCEPT !.status1 = status,
                                  !.location = IF IsRedirect(status) THEN loc ELSE "none"]
     IN IF IsRedirect(status) /\ loc = "absolute"
        THEN /\ download' = Set(download, p,
                  [d EXCEPT !.req1 = "redirected", !.req2 = "sent",
                            !.requests = Append(@, "location")])
             /\ UNCHANGED <<files, pc, response>>
        ELSE IF IsRedirect(status) /\ loc = "relative"
        THEN /\ download' = Set(download, p,
                  [d EXCEPT !.req1 = "redirected", !.escaped = TRUE])
             /\ UNCHANGED <<files, pc, response>>
        ELSE IF status # 200
        THEN /\ download' = Set(download, p,
                  [d EXCEPT !.req1 = "ended", !.promise = Settled(d, "rejected")])
             /\ RejectPromise(p, "HttpStatus")
             /\ UNCHANGED files
        ELSE /\ download' = Set(download, p,
                  [d EXCEPT !.req1 = "piping", !.wrote = TRUE])
             /\ files' = CreateWriteStream(files, filePath(p))
             /\ UNCHANGED <<pc, response>>
  /\ UNCHANGED <<serviceVars, compressVars, httpVars, op>>

\* fileStream 'finish' on the direct path: close, resolve
FirstBodyFinish(p) ==
  /\ download[p].req1 = "piping"
  /\ files' = Finished(files, filePath(p), "body1")
  /\ download' = Set(download, p,
       [download[p] EXCEPT !.req1 = "ended", !.promise = Settled(download[p], "resolved")])
  /\ ResolvePromise(p, files')
  /\ UNCHANGED <<serviceVars, compressVars, httpVars, op>>

\* fileStream 'error' on the direct path: unlink, reject
FirstStreamError(p) ==
  /\ download[p].req1 = "piping"
  /\ files' = Unlink(files, filePath(p))
  /\ download' = Set(download, p,
       [download[p] EXCEPT !.req1 = "ended", !.promise = Settled(download[p], "rejected")])
  /\ RejectPromise(p, "WriteError")
  /\ UNCHANGED <<serviceVars, compressVars, httpVars, op>>

\* request.on('error'): unlink, reject
RequestError(p) ==
  /\ download[p].req1 \in {"sent", "piping"}
  /\ files' = Unlink(files, filePath(p))
  /\ download' = Set(download, p,
       [download[p] EXCEPT !.req1 = "destroyed",
                           !.promise = Settled(download[p], "rejected")])
  /\ RejectPromise(p, "NetworkError")
  /\ UNCHANGED <<serviceVars, compressVars, httpVars, op>>

\* the timeout of the first request can fire while the request waits, while
\* its body arrives, and while the socket of an unread redirect is open
TimeoutArmed(p) == download[p].req1 \in {"sent", "piping", "redirected"}

\* request.setTimeout(60000, ...): destroy the first request, unlink, reject
RequestTimeout(p) ==
  /\ TimeoutArmed(p)
  /\ files' = Unlink(files, filePath(p))
  /\ download' = Set(download, p,
       [download[p] EXCEPT !.req1 = "destroyed",
                           !.timedOut = @ \/ download[p].promise = "pending",
                           !.promise = Settled(download[p], "rejected")])
  /\ RejectPromise(p, "Timeout")
  /\ UNCHANGED <<serviceVars, compressVars, httpVars, op>>

\* the server closes the connection of the unread redirect response
RedirectSocketCloses(p) ==
  /\ download[p].req1 = "redirected"
  /\ download' = Set(download, p, [download[p] EXCEPT !.req1 = "ended"])
  /\ UNCHANGED <<serviceVars, compressVars, httpVars, op, pc, response, files>>

\* the callback of the redirected request: anything but 200 rejects
RedirectResponse(p, status) ==
  /\ download[p].req2 = "sent"
  /\ IF status # 200
     THEN /\ download' = Set(download, p,
               [download[p] EXCEPT !.status2 = status, !.req2 = "ended",
                                   !.promise = Settled(download[p], "rejected")])
          /\ RejectPromise(p, "HttpStatus")
          /\ UNCHANGED files
     ELSE /\ download' = Set(download, p,
               [download[p] EXCEPT !.status2 = status, !.req2 = "piping",
                                   !.wrote = TRUE])
          /\ files' = CreateWriteStream(files, filePath(p))
          /\ UNCHANGED <<pc, response>>
  /\ UNCHANGED <<serviceVars, compressVars, httpVars, op>>

\* fileStream 'finish' on the redirected path: close, resolve
RedirectBodyFinish(p) ==
  /\ download[p].req2 = "piping"
  /\ files' = Finished(files, filePath(p), "body2")
  /\ download' = Set(download, p,
       [download[p] EXCEPT !.req2 = "ended", !.promise = Settled(download[p], "resolved")])
  /\ ResolvePromise(p, files')
  /\ UNCHANGED <<serviceVars, compressVars, httpVars, op>>

\* fileStream 'error' on the redirected path: unlink, reject
RedirectStreamError(p) ==
  /\ download[p].req2 = "piping"
  /\ files' = Unlink(files, filePath(p))
  /\ download' = Set(download, p,
       [download[p] EXCEPT !.req2 = "ended", !.promise = Settled(download[p], "rejected")])
  /\ RejectPromise(p, "WriteError")
  /\ UNCHANGED <<serviceVars, compressVars, httpVars, op>>

\* .on('error', reject) of the redirected request: reject, no unlink
RedirectRequestError(p) ==
  /\ download[p].req2 \in {"sent", "piping"}
  /\ download' = Set(download, p,
       [download[p] EXCEPT !.req2 = "ended", !.promise = Settled(download[p], "rejected")])
  /\ RejectPromise(p, "NetworkError")
  /\ UNCHANGED <<serviceVars, compressVars, httpVars, op, files>>

(***************************************************************************)
(* The compress_images handler: the images are validated against the local *)
(* file system, the valid ones are cut into batches, and the instructions  *)
(* and the task data are returned.                                         *)
(***************************************************************************)
MaxImages == 41

Engines == {"tinypng", "anywebp"}

\* ['png', 'jpg', 'jpeg', 'webp', 'gif', 'bmp', 'tiff']
ImageExts == {"png", "jpg", "jpeg", "webp", "gif", "bmp", "tiff"}

\* an image path together with what the file system says about it
Image(i, exists, large, ext) == [path |-> i, exists |-> exists, large |-> large, ext |-> ext]

\* the image at position i of an images array: all usable and of one
\* format, all usable and of several formats, every third one missing, or a
\* mix of usable, too large and unsupported files
ImageAt(mix, i) ==
  CASE mix = "usable" -> Image(i, TRUE, FALSE, "png")
    [] mix = "formats" -> Image(i, TRUE, FALSE, <<"jpg", "png", "jpeg", "webp">>[(i % 4) + 1])
    [] mix = "missing" -> Image(i, i % 3 # 0, FALSE, "jpg")
    [] mix = "mixed" -> Image(i, TRUE, i % 4 = 2, IF i % 4 = 0 THEN "txt" ELSE "webp")

ImageLists ==
  { [i \in 1..n |-> ImageAt(mix, i)] :
      n \in 0..MaxImages, mix \in {"usable", "formats", "missing", "mixed"} }

\* fs.existsSync(imgPath), stat.size <= 5MB, extension supported
IsValid(img) == img.exists /\ ~img.large /\ img.ext \in ImageExts

\* the message pushed to errors for an image that is skipped
SkipReason(img) ==
  IF ~img.exists THEN <<"Missing", img.path>>
  ELSE IF img.large THEN <<"TooLarge", img.path>>
  ELSE <<"Unsupported", img.path>>

BatchSizeAlwaysTwenty(eng) == 20

\* const batchSize = engine === 'tinypng' ? 3 : 20
BatchSize(eng) == IF eng = "tinypng" THEN 3 ELSE 20

\* Array.prototype.slice(from, to), 0-based, to exclusive and clamped
Slice(seq, from, to) == SubSeq(seq, from + 1, IF to < Len(seq) THEN to ELSE Len(seq))

\* for (let i = 0; i < validImages.length; i += batchSize)
\*   batches.push(validImages.slice(i, i + batchSize))
RECURSIVE BatchesFrom(_, _, _)
BatchesFrom(validImages, i, batchSize) ==
  IF i < Len(validImages)
  THEN <<Slice(validImages, i, i + batchSize)>>
         \o BatchesFrom(validImages, i + batchSize, batchSize)
  ELSE <<>>

\* the optional arguments a caller may pass
OutputFormats == {Undefined, "png", "jpeg", "webp"}

OssDirectories == {Undefined, "", "d"}

CompressOptions ==
  [outputFormat : OutputFormats, deleteOriginal : BOOLEAN, ossDirectory : OssDirectories]

\* JavaScript truthiness of an optional string
Truthy(s) == s \notin {Undefined, ""}

\* ext: ext === 'jpg' ? 'jpeg' : ext
StoredExt(ext) == IF ext = "jpg" THEN "jpeg" ELSE ext

\* engine === 'anywebp' ? 'webp' : (outputFormat || null)
actualOutputFormat(eng, opts) ==
  IF eng = "anywebp" THEN "webp"
  ELSE IF Truthy(opts.outputFormat) THEN opts.outputFormat ELSE Undefined

\* actualOutputFormat || img.ext
newExt(img, eng, opts) ==
  IF Truthy(actualOutputFormat(eng, opts))
  THEN actualOutputFormat(eng, opts) ELSE StoredExt(img.ext)

isFormatChange(img, eng, opts) == newExt(img, eng, opts) # StoredExt(img.ext)

\* the post-processing steps the instructions give for one image: the
\* download, then the upload when ossDirectory is given, then the removal
\* of the original when the format changes and deleteOriginal is set
PostSteps(img, eng, opts) ==
  [path |-> img.path,
   upload |-> IF ~Truthy(opts.ossDirectory) THEN "none"
              ELSE IF isFormatChange(img, eng, opts) THEN "newName" ELSE "overwrite",
   deleteOriginal |-> /\ Truthy(opts.ossDirectory)
                      /\ isFormatChange(img, eng, opts)
                      /\ opts.deleteOriginal]

\* the answer of the handler: the batches and the post-processing steps as
\* the instructions list them, and the task data
CompressResponse(imgs, eng, opts) ==
  LET validImages == SelectSeq(imgs, IsValid)
      skipped == SelectSeq(imgs, LAMBDA img : ~IsValid(img))
      errors == [i \in 1..Len(skipped) |-> SkipReason(skipped[i])]
      batches == BatchesFrom(validImages, 0, BatchSize(eng))
  IN IF validImages = <<>>
     THEN [isError |-> TRUE, text |-> <<"NoValidImages">>, errors |-> errors]
     ELSE [isError |-> FALSE,
           engine |-> eng,
           outputFormat |-> actualOutputFormat(eng, opts),
           deleteOriginal |-> IF Truthy(actualOutputFormat(eng, opts))
                              THEN opts.deleteOriginal ELSE FALSE,
           totalImages |-> Len(validImages),
           batchCount |-> Len(batches),
           batchSize |-> BatchSize(eng),
           batches |-> [b \in 1..Len(batches) |->
                          [i \in 1..Len(batches[b]) |-> batches[b][i].path]],
           steps |-> [i \in 1..Len(validImages) |-> PostSteps(validImages[i], eng, opts)],
           images |-> [i \in 1..Len(validImages) |-> validImages[i].path],
           formats |-> [i \in 1..Len(validImages) |->
                          [originalExt |-> StoredExt(validImages[i].ext),
                           newExt |-> newExt(validImages[i], eng, opts),
                           isFormatChange |-> isFormatChange(validImages[i], eng, opts)]],
           errors |-> errors]

\* the handler has no await: it answers in one step
CompressImages(p, imgs, eng, opts) ==
  /\ Idle(p)
  /\ op' = Set(op, p, "compress")
  /\ images' = Set(images, p, imgs)
  /\ engine' = Set(engine, p, eng)
  /\ options' = Set(options, p, opts)
  /\ response' = Set(response, p, CompressResponse(imgs, eng, opts))
  /\ pc' = Set(pc, p, "done")
  /\ UNCHANGED <<serviceVars, downloadVars, httpVars>>

(***************************************************************************)
(* startHttpServer: GET /sse stores the new transport in the server's one  *)
(* sseTransport slot, the close of that request clears the slot, and       *)
(* POST /messages is handed to whatever transport the slot holds.          *)
(***************************************************************************)
MaxSseClients == 4

\* an SSE client is identified with the transport created for it
SseClients == 1..MaxSseClients

\* app.get("/sse"): this.sseTransport = new SSEServerTransport(...), then
\* server.connect(...) and req.on('close', ...) are set up
SseConnect(c) ==
  /\ c \notin connected
  /\ sseTransport' = c
  /\ connected' = connected \cup {c}
  /\ UNCHANGED <<serviceVars, downloadVars, compressVars, pc, op, response, posted>>

\* req.on('close', () => { this.sseTransport = null })
SlotAfterClose(c) == NoTransport

\* the GET /sse request of client c is closed
SseClose(c) ==
  /\ c \in connected
  /\ sseTransport' = SlotAfterClose(c)
  /\ connected' = connected \ {c}
  /\ UNCHANGED <<serviceVars, downloadVars, compressVars, pc, op, response, posted>>

\* app.post("/messages"): 400 when the slot is null, else the message is
\* handed to the transport in the slot
PostMessage ==
  /\ posted' = [status |-> IF sseTransport = NoTransport THEN "400" ELSE "handled",
                clients |-> connected]
  /\ UNCHANGED <<serviceVars, downloadVars, compressVars, pc, op, response,
                 sseTransport, connected>>

(***************************************************************************)
(* Specification: one batch_rename_files invocation, dry-run or real, from *)
(* any initial store, followed up to the delivery of its response.         *)
(***************************************************************************)
Serving == {1}

Next ==
  \E p \in Serving :
    \/ Idle(p) /\ \E d \in Dirs, rs \in RuleLists, cn \in ConfigNames, dr \in BOOLEAN :
                     BatchRenameDryRun(p, d, rs, cn, dr)
    \/ Idle(p) /\ \E d \in Dirs, rs \in RuleLists, cn \in ConfigNames, dr \in BOOLEAN :
                     BatchRenameBegin(p, d, rs, cn, dr)
    \/ StartRule(p)
    \/ HeadOldReturn(p)
    \/ HeadNewReturn(p)
    \/ CopyReturns(p)
    \/ CopyThrows(p)
    \/ DeleteReturns(p)
    \/ DeleteThrows(p)
    \/ PushResult(p)
    \/ FinishBatch(p)

Spec == Init /\ [][Next]_vars

(***************************************************************************)
(* Specification: any sequence of uploads, single-rule batch renames,      *)
(* listings and deletions, one at a time, from a store with objects in the *)
(* root directory only.                                                    *)
(***************************************************************************)
SingleRuleLists == { <<r>> : r \in Rules }

InitOps ==
  /\ Init
  /\ store \in { Populated(S) : S \in SUBSET KeysIn(<<>>) }

NextOps ==
  \E p \in Serving :
    \/ Idle(p) /\ \E d \in Dirs, rs \in SingleRuleLists, cn \in ConfigNames, dr \in BOOLEAN :
                     BatchRenameDryRun(p, d, rs, cn, dr)
    \/ Idle(p) /\ \E d \in Dirs, rs \in SingleRuleLists, cn \in ConfigNames, dr \in BOOLEAN :
                     BatchRenameBegin(p, d, rs, cn, dr)
    \/ StartRule(p)
    \/ HeadOldReturn(p)
    \/ HeadNewReturn(p)
    \/ CopyReturns(p)
    \/ CopyThrows(p)
    \/ DeleteReturns(p)
    \/ DeleteThrows(p)
    \/ PushResult(p)
    \/ FinishBatch(p)
    \/ Idle(p) /\ \E fp \in LocalPaths, td \in Dirs, fn \in UploadNames,
                     cn \in ConfigNames, exists \in BOOLEAN :
                     UploadToOss(p, fp, td, fn, cn, exists)
    \/ PutReturns(p)
    \/ PutThrows(p)
    \/ Idle(p) /\ \E key \in DeleteKeys, cn \in ConfigNames : DeleteFile(p, key, cn)
    \/ DeleteHeadReturn(p)
    \/ DeleteFileReturns(p)
    \/ DeleteFileThrows(p)
    \/ Idle(p) /\ \E d \in Dirs, cn \in ConfigNames : ListFiles(p, d, cn, NoPattern)
    \/ ListReturns(p)
    \/ ListThrows(p)
    \/ Return(p)

SpecOps == InitOps /\ [][NextOps]_vars

(***************************************************************************)
(* Specification: one batchDeleteFiles call, from any initial store, up to *)
(* the return of its results.                                              *)
(***************************************************************************)
NextDelete ==
  \E p \in Serving :
    \/ Idle(p) /\ \E names \in DeleteLists, d \in Dirs, cn \in ConfigNames :
                     BatchDeleteFiles(p, names, d, cn)
    \/ BatchDeleteCall(p)
    \/ DeleteHeadReturn(p)
    \/ DeleteFileReturns(p)
    \/ DeleteFileThrows(p)
    \/ BatchDeletePush(p)
    \/ BatchDeleteFinish(p)

SpecDelete == Init /\ [][NextDelete]_vars

(***************************************************************************)
(* Specification: one download_file invocation and the callbacks of its    *)
(* requests, which may run after the response was delivered.               *)
(***************************************************************************)
InitDownload ==
  /\ store = Populated({})
  /\ files \in [Targets -> {NoFile, "old"}]
  /\ InitService

NextDownload ==
  \E p \in Serving :
    \/ Idle(p) /\ \E fileName \in FileNames, urlOk \in BOOLEAN, dirOk \in BOOLEAN :
                     DownloadFile(p, fileName, urlOk, dirOk)
    \/ \E status \in Statuses, loc \in Locations : FirstResponse(p, status, loc)
    \/ FirstBodyFinish(p)
    \/ FirstStreamError(p)
    \/ RequestError(p)
    \/ RequestTimeout(p)
    \/ RedirectSocketCloses(p)
    \/ \E status \in Statuses : RedirectResponse(p, status)
    \/ RedirectBodyFinish(p)
    \/ RedirectStreamError(p)
    \/ RedirectRequestError(p)

SpecDownload == InitDownload /\ [][NextDownload]_vars

(***************************************************************************)
(* Specification: one listFiles call with a pattern, on a bucket that      *)
(* holds one object in its root, for every name and every pattern.         *)
(***************************************************************************)
MaxNameLen == 3

MaxPatternLen == 3

NameChars == {"a", "B", ".", "+"}

PatternChars == {"a", "b", ".", "*", "?", "+"}

FilterNames == UNION { [1..n -> NameChars] : n \in 1..MaxNameLen }

Patterns == UNION { [1..n -> PatternChars] : n \in 1..MaxPatternLen }

InitFilter ==
  /\ store \in { [k \in {n} |-> n] : n \in FilterNames }
  /\ files = [t \in Targets |-> NoFile]
  /\ InitService

NextFilter ==
  \E p \in Serving :
    \/ Idle(p) /\ \E pat \in Patterns : ListFiles(p, <<>>, "default", pat)
    \/ ListReturns(p)
    \/ ListThrows(p)

SpecFilter == InitFilter /\ [][NextFilter]_vars

(***************************************************************************)
(* Specification: one listFiles call on a bucket with objects in its root, *)
(* in the directory "d" and below it, or with MaxKeys or MaxKeys + 1       *)
(* numbered objects in "d".                                                *)
(***************************************************************************)
ListKeys ==
  { <<"B">>, <<"a">>, <<"d", "/">>, <<"d", "/", "B">>, <<"d", "/", "a">>,
    <<"d", "/", "s", "/", "a">> }

ListStores ==
  { [k \in ListKeys |-> IF k \in S THEN k ELSE Absent] : S \in SUBSET ListKeys }
  \cup { [k \in { NumberedKey(i) : i \in 1..n } |-> k] : n \in {MaxKeys, MaxKeys + 1} }

ListPatterns == { NoPattern, <<"a", "*">> }

InitList ==
  /\ store \in ListStores
  /\ files = [t \in Targets |-> NoFile]
  /\ InitService

NextList ==
  \E p \in Serving :
    \/ Idle(p) /\ \E d \in Dirs, cn \in ConfigNames, pat \in ListPatterns :
                     ListFiles(p, d, cn, pat)
    \/ ListReturns(p)
    \/ ListThrows(p)

SpecList == InitList /\ [][NextList]_vars

(***************************************************************************)
(* Specification: one compress_images invocation, for every engine and     *)
(* every images array of ImageLists.                                       *)
(***************************************************************************)
InitCompress ==
  /\ store = Populated({})
  /\ files = [t \in Targets |-> NoFile]
  /\ InitService

NextCompress ==
  \E p \in Serving :
    Idle(p) /\ \E imgs \in ImageLists, eng \in Engines, opts \in CompressOptions :
                 CompressImages(p, imgs, eng, opts)

SpecCompress == InitCompress /\ [][NextCompress]_vars

(***************************************************************************)
(* Specification: two batch_rename_files invocations of one rule each, in  *)
(* the same directory, whose steps interleave at every await.              *)
(***************************************************************************)
RaceDir == <<"/", "d", "/">>

InitRace ==
  /\ store \in { Populated(S) : S \in SUBSET KeysIn(RaceDir) }
  /\ files = [t \in Targets |-> NoFile]
  /\ InitService

NextRace ==
  \E p \in Procs :
    \/ Idle(p) /\ \E rs \in SingleRuleLists :
                     BatchRenameBegin(p, RaceDir, rs, "default", FALSE)
    \/ StartRule(p)
    \/ HeadOldReturn(p)
    \/ HeadNewReturn(p)
    \/ CopyReturns(p)
    \/ CopyThrows(p)
    \/ DeleteReturns(p)
    \/ DeleteThrows(p)
    \/ PushResult(p)
    \/ FinishBatch(p)

SpecRace == InitRace /\ [][NextRace]_vars

(***************************************************************************)
(* Specification: the HTTP server with SSE clients that connect and        *)
(* disconnect in any order, and POSTs to /messages at any time.            *)
(***************************************************************************)
InitHttp ==
  /\ store = Populated({})
  /\ files = [t \in Targets |-> NoFile]
  /\ InitService

NextHttp ==
  \/ \E c \in SseClients : SseConnect(c)
  \/ \E c \in SseClients : SseClose(c)
  \/ PostMessage

SpecHttp == InitHttp /\ [][NextHttp]_vars

(***************************************************************************)
(* Specification: two download_file invocations whose handlers and         *)
(* callbacks interleave.                                                   *)
(***************************************************************************)
NextDownloadRace ==
  \E p \in Procs :
    \/ Idle(p) /\ \E fileName \in FileNames, urlOk \in BOOLEAN, dirOk \in BOOLEAN :
                     DownloadFile(p, fileName, urlOk, dirOk)
    \/ \E status \in Statuses, loc \in Locations : FirstResponse(p, status, loc)
    \/ FirstBodyFinish(p)
    \/ FirstStreamError(p)
    \/ RequestError(p)
    \/ RequestTimeout(p)
    \/ RedirectSocketCloses(p)
    \/ \E status \in Statuses : RedirectResponse(p, status)
    \/ RedirectBodyFinish(p)
    \/ RedirectStreamError(p)
    \/ RedirectRequestError(p)

SpecDownloadRace == InitDownload /\ [][NextDownloadRace]_vars

(***************************************************************************)
(* Specification: one upload_to_oss invocation, for target directories     *)
(* with any number of leading and trailing separators.                     *)
(***************************************************************************)
UploadDirs == Dirs \cup { <<"/">>, <<"d">>, <<"/", "/", "d", "/", "/">> }

NextUpload ==
  \E p \in Serving :
    \/ Idle(p) /\ \E fp \in LocalPaths, td \in UploadDirs, fn \in UploadNames,
                     cn \in ConfigNames, exists \in BOOLEAN :
                     UploadToOss(p, fp, td, fn, cn, exists)
    \/ PutReturns(p)
    \/ PutThrows(p)

SpecUpload == InitOps /\ [][NextUpload]_vars

(***************************************************************************)
(* Properties of renameFile and batch_rename_files.                        *)
(***************************************************************************)
\* renameFile has just resolved for the rule at idx; its result is in res
AtRenameReturn(p) == op[p] = "rename" /\ pc[p] = "rf_ret"

CurRule(p) == rules[p][idx[p]]

CurOldKey(p) == RenameKey(directory[p], CurRule(p).oldName)

CurNewKey(p) == RenameKey(directory[p], CurRule(p).newName)

\* the four remote calls of a rename that got as far as delete
FullCalls(p) ==
  << Call("head", oldKey[p]), Call("head", newKey[p]),
     Call("copy", newKey[p]), Call("delete", oldKey[p]) >>

\* C1 as stated: whenever renameFile returns success=true for a rule whose
\* oldName and newName differ as supplied, the key composed from newName
\* holds an object and the key composed from oldName holds none.
C1_SuccessMovesObject_NamesAsSupplied ==
  \A p \in Procs :
    (AtRenameReturn(p) /\ res[p].success /\ CurRule(p).oldName # CurRule(p).newName)
      => /\ store[CurNewKey(p)] # Absent
         /\ store[CurOldKey(p)] = Absent

\* C1 amended: whenever renameFile returns success=true for a rule whose two
\* composed keys differ after normalisation, the new key holds the object the
\* old key held and the old key holds none.
C1_SuccessMovesObject ==
  \A p \in Procs :
    (AtRenameReturn(p) /\ res[p].success /\ CurOldKey(p) # CurNewKey(p))
      => /\ store[CurNewKey(p)] # Absent
         /\ store[CurNewKey(p)] = store0[p][CurOldKey(p)]
         /\ store[CurOldKey(p)] = Absent

C1_Witness ==
  \E p \in Procs :
    /\ AtRenameReturn(p) /\ res[p].success
    /\ CurOldKey(p) # CurNewKey(p)
    /\ Head(CurRule(p).oldName) = "/"
    /\ directory[p] # <<>>

\* C2: a real rename whose old key equals its new key, whose object exists
\* and none of whose remote calls throws, reports success, does not report
\* DestinationExists, and leaves the object in the store with its content.
C2_SelfRenameIsNoOp ==
  \A p \in Procs :
    (/\ AtRenameReturn(p) /\ client[p] # NoClient
     /\ oldKey[p] = newKey[p]
     /\ store0[p][oldKey[p]] # Absent
     /\ thrown[p] = "none")
      => /\ res[p].success
         /\ res[p].error # <<"DestinationExists", newKey[p]>>
         /\ store[oldKey[p]] = store0[p][oldKey[p]]

\* C3: a real rename with a client, whose source key holds an object and
\* whose destination key holds an object and differs from the source key,
\* returns the destination-exists failure, has issued only the two probes
\* (neither copy nor delete), and leaves the whole store as it was.
C3_DestinationExistsRejected ==
  \A p \in Procs :
    (/\ AtRenameReturn(p) /\ client[p] # NoClient
     /\ store0[p][oldKey[p]] # Absent
     /\ store0[p][newKey[p]] # Absent
     /\ oldKey[p] # newKey[p])
      => /\ res[p] = Failure("DestinationExists", newKey[p])
         /\ calls[p] = << Call("head", oldKey[p]), Call("head", newKey[p]) >>
         /\ store = store0[p]

C3_Witness ==
  \E p \in Procs :
    /\ AtRenameReturn(p) /\ client[p] # NoClient
    /\ store0[p][oldKey[p]] # Absent
    /\ store0[p][newKey[p]] # Absent
    /\ oldKey[p] # newKey[p]
    /\ res[p] = Failure("DestinationExists", newKey[p])

\* C4: a real rename with a client, whose source key holds no object,
\* returns the source-not-found failure, has issued the source probe and
\* nothing else (no destination probe, no copy, no delete), and leaves the
\* store as it was.
C4_SourceNotFound ==
  \A p \in Procs :
    (/\ AtRenameReturn(p) /\ client[p] # NoClient
     /\ store0[p][oldKey[p]] = Absent)
      => /\ res[p] = Failure("SourceNotFound", oldKey[p])
         /\ calls[p] = << Call("head", oldKey[p]) >>
         /\ store = store0[p]

C4_Witness ==
  \E p \in Procs :
    /\ AtRenameReturn(p) /\ client[p] # NoClient
    /\ store0[p][oldKey[p]] = Absent
    /\ store0[p][newKey[p]] # Absent
    /\ res[p] = Failure("SourceNotFound", oldKey[p])

\* C5: when a batch rename (dry-run or real) hands over its results, the
\* array has one entry per rule, entry i carrying rule i's oldName and
\* newName, and in a real run renameFile has been called once for every rule.
C5_OneResultPerRule ==
  \A p \in Procs :
    (op[p] = "rename" /\ pc[p] = "done")
      => /\ Len(results[p]) = Len(rules[p])
         /\ \A i \in 1..Len(rules[p]) :
              /\ results[p][i].oldName = rules[p][i].oldName
              /\ results[p][i].newName = rules[p][i].newName
         /\ Len(response[p].lines) = Len(rules[p])
         /\ ~dryRun[p] => attempted[p] = Len(rules[p])

\* a real batch of two rules whose first rule failed and whose second succeeded
C5_Witness ==
  \E p \in Procs :
    /\ op[p] = "rename" /\ pc[p] = "done" /\ ~dryRun[p]
    /\ Len(rules[p]) = 2
    /\ ~results[p][1].success
    /\ results[p][2].success

\* C6: a batch rename called with dryRun=true has, when it answers, issued
\* no remote call and looked up no client, left the store and the client
\* cache as they were, and reports success with no error for every rule.
C6_DryRunTouchesNothing ==
  \A p \in Procs :
    (op[p] = "rename" /\ pc[p] = "done" /\ dryRun[p])
      => /\ calls[p] = <<>> /\ inflight[p] = 0 /\ attempted[p] = 0
         /\ client[p] = NoClient
         /\ store = store0[p]
         /\ clients = clients0[p]
         /\ \A n \in ConfigNames : constructed[n] = 0
         /\ \A i \in 1..Len(results[p]) :
              results[p][i].success /\ results[p][i].error = NoError
         /\ response[p].failCount = 0
         /\ response[p].successCount = Len(rules[p])

\* a preview of two rules against a missing configuration and a store in
\* which the first rule's source is absent
C6_Witness ==
  \E p \in Procs :
    /\ op[p] = "rename" /\ pc[p] = "done" /\ dryRun[p]
    /\ Len(rules[p]) = 2
    /\ configName[p] = "missing"
    /\ store[RenameKey(directory[p], rules[p][1].oldName)] = Absent

\* C7: when renameFile returns success=false the store is as it was when
\* renameFile was entered, or copy had returned and delete threw and the
\* store differs only in that the new key holds a copy of the old object,
\* which is still under the old key.
C7_FailureLeavesNoPartialMutation ==
  \A p \in Procs :
    (AtRenameReturn(p) /\ ~res[p].success)
      => \/ store = store0[p]
         \/ /\ client[p] # NoClient
            /\ thrown[p] = "delete"
            /\ calls[p] = FullCalls(p)
            /\ store0[p][oldKey[p]] # Absent
            /\ store[oldKey[p]] = store0[p][oldKey[p]]
            /\ store = [store0[p] EXCEPT ![newKey[p]] = store0[p][oldKey[p]]]

\* a failed rename that left the copy behind
C7_Witness ==
  \E p \in Procs :
    /\ AtRenameReturn(p) /\ ~res[p].success
    /\ store # store0[p]

\* C8: when copy returned and the delete of the old key threw, renameFile
\* returns success=false, has issued no call after the delete, and the old
\* key and the new key both hold the object.
C8_NoRollbackAfterDeleteFailure ==
  \A p \in Procs :
    (AtRenameReturn(p) /\ thrown[p] = "delete")
      => /\ ~res[p].success
         /\ calls[p] = FullCalls(p)
         /\ store[oldKey[p]] = store0[p][oldKey[p]]
         /\ store[newKey[p]] = store0[p][oldKey[p]]
         /\ store[oldKey[p]] # Absent

C8_Witness ==
  \E p \in Procs :
    /\ AtRenameReturn(p) /\ thrown[p] = "delete"
    /\ oldKey[p] # newKey[p]
    /\ store0[p][newKey[p]] = Absent
    /\ store[newKey[p]] # Absent

\* C9: an invocation never has more than one remote call in flight; none is
\* in flight when the loop takes its next rule, when renameFile has resolved
\* or when the results are handed over; and a real run hands over its
\* results only after the last rule has been processed.
C9_OneCallAtATime ==
  \A p \in Procs :
    /\ inflight[p] \in {0, 1}
    /\ pc[p] \in {"idle", "loop", "rf_ret", "done"} => inflight[p] = 0
    /\ pc[p] \in {"head_old", "head_new", "copy", "delete"} => inflight[p] = 1
    /\ (op[p] = "rename" /\ ~dryRun[p] /\ pc[p] \in {"loop", "head_old", "head_new", "copy", "delete", "rf_ret"})
         => Len(results[p]) = idx[p] - 1
    /\ (op[p] = "rename" /\ ~dryRun[p] /\ pc[p] \in {"head_old", "head_new", "copy", "delete", "rf_ret"})
         => attempted[p] = idx[p]
    /\ (op[p] = "rename" /\ pc[p] = "done" /\ ~dryRun[p])
         => idx[p] = Len(rules[p]) + 1 /\ Len(results[p]) = Len(rules[p])

\* the second rule's delete is in flight
C9_Witness ==
  \E p \in Procs :
    /\ op[p] = "rename" /\ pc[p] = "delete" /\ idx[p] = 2 /\ inflight[p] = 1

(***************************************************************************)
(* Properties of the client cache.                                         *)
(***************************************************************************)
\* C10: in every step of any sequence of uploads, renames, listings and
\* deletions, a cache entry that exists stays the same instance (it is
\* neither removed nor replaced), no configuration name has had more than
\* one client constructed, and the client an operation works with is the
\* cached instance of its configuration name.
C10_ClientConstructedOnce ==
  [][ /\ \A n \in ConfigNames : clients[n] # NoClient => clients'[n] = clients[n]
      /\ \A n \in ConfigNames : constructed'[n] <= 1
      /\ \A p \in Procs :
           client'[p] # NoClient => client'[p] = clients'[configName'[p]] ]_vars

\* an upload, listing or deletion that found the client cached by an
\* earlier operation and works with that instance
C10_Witness ==
  \E p \in Procs :
    /\ op[p] \in {"upload", "list", "delete"}
    /\ clients0[p][configName[p]] # NoClient
    /\ client[p] = clients0[p][configName[p]]
    /\ constructed[configName[p]] = 1

(***************************************************************************)
(* Properties of getClient.                                                *)
(***************************************************************************)
\* the configuration name has no configuration, or its client cannot be built
NoClientFor(name) == ~getOssConfig(name) \/ ConstructorThrows(name)

\* C11: whenever renameFile has resolved for a configuration name that is
\* unknown or whose client construction throws, it got no client, the cache
\* is what it was when the invocation began and holds no entry for the
\* name, no head, copy or delete was issued, the store is untouched, and
\* the result is the failure naming the configuration, the same error for
\* both causes.
C11_NoClientFailsWithoutCalls ==
  \A p \in Procs :
    (AtRenameReturn(p) /\ NoClientFor(configName[p])) =>
      /\ client[p] = NoClient
      /\ clients = clients0[p]
      /\ clients[configName[p]] = NoClient
      /\ calls[p] = <<>>
      /\ inflight[p] = 0
      /\ store = store0[p]
      /\ res[p] = Failure("ConfigNotFound", configName[p])

\* the second rule of a batch has failed on the configuration whose client
\* construction throws
C11_Witness ==
  \E p \in Procs :
    /\ AtRenameReturn(p)
    /\ configName[p] = "broken"
    /\ attempted[p] = 2
    /\ res[p] = Failure("ConfigNotFound", "broken")
    /\ calls[p] = <<>>

C13_PreviewCannotBeSkipped ==
  \A p \in Procs :
    (op[p] = "rename" /\ ~dryRun[p]) => (attempted[p] = 0 /\ store = store0[p])

(***************************************************************************)
(* Properties of download_file.                                            *)
(***************************************************************************)
\* the first response was a 301 or 302 that carried a Location header
Redirected(p) ==
  /\ op[p] = "download"
  /\ IsRedirect(download[p].status1)
  /\ download[p].location # "none"

\* C14: a download whose first response is a 301/302 with a Location header
\* has issued exactly one further request, to the redirect target; when it
\* reports success the file holds the body of that second response; when
\* the redirect target answered with anything but 200 (a redirect
\* included) no file was written and the download has reported failure.
C14_OneRedirectFollowed ==
  \A p \in Procs :
    Redirected(p) =>
      /\ download[p].requests = <<"url", "location">>
      /\ (pc[p] = "done" /\ ~response[p].isError) =>
            response[p] = DownloadSuccess("body2")
      /\ download[p].status2 \in Statuses \ {200} =>
            /\ ~download[p].wrote
            /\ pc[p] = "done"
            /\ response[p].isError

\* C15: a download whose timeout fired before it had finished, directly or
\* after a redirect, has reported the timeout error and no file, complete
\* or truncated, is at the target path.
C15_TimeoutLeavesNoFile ==
  \A p \in Procs :
    download[p].timedOut =>
      /\ pc[p] = "done"
      /\ response[p] = DownloadError("Timeout")
      /\ files[filePath(p)] = NoFile

(***************************************************************************)
(* Properties of the tool handlers' responses.                             *)
(***************************************************************************)
\* C19: no exception has escaped a handler or the callbacks it installed;
\* a finished batch-rename, upload, download or compress invocation has handed back
\* one response, a success payload or an error with a message; a
\* batch-rename response lists every failed rule with its error.
C19_EveryInvocationAnswers ==
  \A p \in Procs :
    /\ ~download[p].escaped
    /\ (pc[p] = "done" /\ op[p] \in {"rename", "upload", "download", "compress"}) =>
          /\ response[p] # <<>>
          /\ response[p].isError \in BOOLEAN
          /\ (op[p] # "rename" /\ response[p].isError) => response[p].text # <<>>
    /\ (pc[p] = "done" /\ op[p] = "rename") =>
          /\ Len(response[p].lines) = Len(rules[p])
          /\ \A i \in 1..Len(response[p].lines) :
                ~response[p].lines[i].ok => response[p].lines[i].error # NoError

(***************************************************************************)
(* Properties of listFiles.                                                *)
(***************************************************************************)
\* listFiles has resolved without its list call throwing
Listed(p) ==
  op[p] = "list" /\ pc[p] = "done" /\ client[p] # NoClient /\ thrown[p] = "none"

\* the names of the objects directly under the prefix of the listing, the
\* directory entries left out
DirectNames(p) ==
  LET pre == DirPrefix(directory[p])
  IN { AfterPrefix(pre, k) :
         k \in { o \in ListedObjects(pre) :
                   ~EndsWithSeparator(o) /\ AfterPrefix(pre, o) # <<>> } }

Range(seq) == { seq[i] : i \in 1..Len(seq) }

\* the whole name matches the pattern read as a glob, whatever the case of
\* its letters: '*' is any run of characters, '?' is one character, every
\* other character is itself
RECURSIVE GlobMatch(_, _)
GlobMatch(pat, name) ==
  IF pat = <<>> THEN name = <<>>
  ELSE IF Head(pat) = "*"
  THEN GlobMatch(Tail(pat), name) \/ (name # <<>> /\ GlobMatch(pat, Tail(name)))
  ELSE IF Head(pat) = "?"
  THEN name # <<>> /\ GlobMatch(Tail(pat), Tail(name))
  ELSE /\ name # <<>>
       /\ Lower(Head(pat)) = Lower(Head(name))
       /\ GlobMatch(Tail(pat), Tail(name))

\* C16: for every file name and every pattern over letters, '.', '*', '?'
\* and '+', a listing with the pattern succeeds and keeps the name exactly
\* when the whole name matches the pattern read as a glob.
C16_FilterIsGlob ==
  \A p \in Procs :
    (Listed(p) /\ pattern[p] # NoPattern) =>
      /\ res[p].success
      /\ \A name \in DirectNames(p) :
           name \in Range(res[p].files) <=> GlobMatch(pattern[p], name)

\* C17: a successful listing without a pattern returns every object that
\* lies directly under the prefix, however many there are, each once and
\* with the prefix removed, and no entry that ends with the separator.
C17_ListsEveryObject ==
  \A p \in Procs :
    (Listed(p) /\ pattern[p] = NoPattern) =>
      /\ res[p].success
      /\ Range(res[p].files) = DirectNames(p)
      /\ Len(res[p].files) = Cardinality(DirectNames(p))
      /\ \A i \in 1..Len(res[p].files) : ~EndsWithSeparator(res[p].files[i])

\* the UTF-16 code unit of a character
CodeUnit(c) ==
  CASE c = "+" -> 43 [] c = "." -> 46 [] c = "/" -> 47
    [] c = "0" -> 48 [] c = "1" -> 49 [] c = "2" -> 50 [] c = "3" -> 51 [] c = "4" -> 52
    [] c = "5" -> 53 [] c = "6" -> 54 [] c = "7" -> 55 [] c = "8" -> 56 [] c = "9" -> 57
    [] c = "A" -> 65 [] c = "B" -> 66 [] c = "a" -> 97 [] c = "b" -> 98 [] c = "d" -> 100
    [] c = "n" -> 110 [] c = "s" -> 115

\* a is before b in lexicographic order, characters compared by code unit
LexicographicLess(a, b) ==
  LexLess([i \in 1..Len(a) |-> CodeUnit(a[i])], [i \in 1..Len(b) |-> CodeUnit(b[i])])

RECURSIVE Concat(_)
Concat(seqs) == IF seqs = <<>> THEN <<>> ELSE Head(seqs) \o Concat(Tail(seqs))

\* the paths of the valid images of the invocation, in the order given
ValidPaths(p) ==
  LET v == SelectSeq(images[p], IsValid) IN [i \in 1..Len(v) |-> v[i].path]

\* C20: the batches of a compress_images answer are non-empty, hold at
\* most 3 images for tinypng and at most 20 for anywebp, their
\* concatenation is the list of valid images (none lost, duplicated or
\* moved), and their number is the number of valid images divided by the
\* batch size, rounded up.
C20_BatchesPartitionValidImages ==
  \A p \in Procs :
    (op[p] = "compress" /\ pc[p] = "done" /\ ~response[p].isError) =>
      LET limit == IF engine[p] = "tinypng" THEN 3 ELSE 20
          batches == response[p].batches
      IN /\ \A b \in 1..Len(batches) : Len(batches[b]) \in 1..limit
         /\ Concat(batches) = ValidPaths(p)
         /\ response[p].images = ValidPaths(p)
         /\ Len(batches) = (Len(ValidPaths(p)) + limit - 1) \div limit
         /\ response[p].batchCount = Len(batches)

\* anywebp with more than 40 valid images: three batches, the last one
\* not full
C20_Witness ==
  \E p \in Procs :
    /\ op[p] = "compress"
    /\ pc[p] = "done"
    /\ engine[p] = "anywebp"
    /\ ~response[p].isError
    /\ Len(response[p].batches) = 3
    /\ Len(response[p].batches[3]) < 20

\* the extension an image ends up with differs from its own: webp for
\* anywebp, the requested output format for tinypng, else its own; jpg
\* counts as jpeg
ChangesFormat(p, i) ==
  LET img == SelectSeq(images[p], IsValid)[i]
      original == IF img.ext = "jpg" THEN "jpeg" ELSE img.ext
      target == IF engine[p] = "anywebp" THEN "webp"
                ELSE IF options[p].outputFormat \in {"png", "jpeg", "webp"}
                     THEN options[p].outputFormat ELSE original
  IN target # original

\* C21: deleteOriginal takes effect only on a format change: the
\* instructions tell to delete an image's original only if deleteOriginal
\* was passed as true and that image changes format, and the deleteOriginal
\* flag of the task data is true only if some image changes format.
C21_DeleteOriginalOnlyOnFormatChange ==
  \A p \in Procs :
    (op[p] = "compress" /\ pc[p] = "done" /\ ~response[p].isError) =>
      /\ \A i \in 1..Len(response[p].steps) :
           response[p].steps[i].deleteOriginal =>
             (options[p].deleteOriginal /\ ChangesFormat(p, i))
      /\ response[p].deleteOriginal =>
           \E i \in 1..Len(response[p].steps) : ChangesFormat(p, i)

(***************************************************************************)
(* Properties of a batch as a sequence of renames.                         *)
(***************************************************************************)
\* the key batchRenameFiles composes for the old / new name of rule i
OldKeyOf(p, i) == RenameKey(directory[p], rules[p][i].oldName)

NewKeyOf(p, i) == RenameKey(directory[p], rules[p][i].newName)

\* the first two rules of the running batch have been processed
TwoRulesDone(p) ==
  op[p] = "rename" /\ ~dryRun[p] /\ pc[p] = "loop" /\ Len(results[p]) = 2

\* the first two rules have different sources that both existed when the
\* batch began and name the same destination, which did not exist then
Colliding(p) ==
  /\ OldKeyOf(p, 1) # OldKeyOf(p, 2)
  /\ NewKeyOf(p, 1) = NewKeyOf(p, 2)
  /\ bucket0[p][OldKeyOf(p, 1)] # Absent
  /\ bucket0[p][OldKeyOf(p, 2)] # Absent
  /\ bucket0[p][NewKeyOf(p, 1)] = Absent

\* the result reports that no client was available or that a remote call threw
Faulted(r) == ~r.success /\ r.error[1] \in {"ConfigNotFound", "RenameFailed"}

\* C22: in a real batch whose first two rules have different existing
\* sources and the same initially absent destination, and in which the
\* client is available and no remote call of the earlier rule throws, the
\* earlier rule succeeds, the later rule fails with the destination-exists
\* error, the later rule's source is still in place and the destination
\* holds the earlier rule's content; and every rename's source and
\* destination verdicts are those of the store as the earlier rules left it.
C22_LaterRuleSeesEarlierRename ==
  \A p \in Procs :
    /\ (TwoRulesDone(p) /\ Colliding(p) /\ ~Faulted(results[p][1])) =>
         /\ results[p][1].success
         /\ ~results[p][2].success
         /\ results[p][2].error = <<"DestinationExists", NewKeyOf(p, 2)>>
         /\ store[OldKeyOf(p, 2)] = bucket0[p][OldKeyOf(p, 2)]
         /\ store[NewKeyOf(p, 1)] = bucket0[p][OldKeyOf(p, 1)]
         /\ store[OldKeyOf(p, 1)] = Absent
    /\ (AtRenameReturn(p) /\ client[p] # NoClient) =>
         /\ res[p].error = <<"SourceNotFound", oldKey[p]>>
              <=> store0[p][oldKey[p]] = Absent
         /\ res[p].error = <<"DestinationExists", newKey[p]>>
              <=> (/\ store0[p][oldKey[p]] # Absent
                   /\ store0[p][newKey[p]] # Absent
                   /\ oldKey[p] # newKey[p])

C22_Witness ==
  \E p \in Procs :
    /\ TwoRulesDone(p) /\ Colliding(p)
    /\ results[p][1].success
    /\ results[p][2].error = <<"DestinationExists", NewKeyOf(p, 2)>>
    /\ store[NewKeyOf(p, 1)] = OldKeyOf(p, 1)

(***************************************************************************)
(* Properties of the remote calls of one rename.                           *)
(***************************************************************************)
\* renameFile is running, or has just resolved, for a rule of a real batch
InRename(p) ==
  /\ op[p] = "rename" /\ ~dryRun[p]
  /\ pc[p] \in {"head_old", "head_new", "copy", "delete", "rf_ret"}

\* C23: the remote calls one rename has issued are a prefix of head(old),
\* head(new), copy(new from old), delete(old); copy is issued only after the
\* source probe succeeded, delete only after copy returned without throwing,
\* and the rename returns success=true exactly when all four calls were
\* issued and neither copy nor delete threw.
C23_CallsArePrefix ==
  \A p \in Procs :
    InRename(p) =>
      /\ Len(calls[p]) <= 4
      /\ calls[p] = SubSeq(FullCalls(p), 1, Len(calls[p]))
      /\ Len(calls[p]) >= 3 => store0[p][oldKey[p]] # Absent
      /\ Len(calls[p]) = 4 => thrown[p] # "copy"
      /\ pc[p] = "delete" =>
           (store[newKey[p]] # Absent /\ store[newKey[p]] = store0[p][oldKey[p]])
      /\ pc[p] = "rf_ret" =>
           (res[p].success <=> (calls[p] = FullCalls(p) /\ thrown[p] = "none"))

\* a rename that issued all four calls and succeeded, after an earlier one
\* that stopped at a copy that threw
C23_Witness ==
  \E p \in Procs :
    /\ InRename(p) /\ pc[p] = "rf_ret" /\ idx[p] = 2
    /\ res[p].success /\ calls[p] = FullCalls(p)
    /\ results[p][1].error = <<"RenameFailed", "copy">>

(***************************************************************************)
(* Properties of the store across a whole batch.                           *)
(***************************************************************************)
\* the keys that hold an object in store s
Objects(s) == { k \in DOMAIN s : s[k] # Absent }

\* a real batch has handed over its results and none of its copy or delete
\* calls threw
BatchDoneWithoutThrow(p) ==
  /\ op[p] = "rename" /\ ~dryRun[p] /\ pc[p] = "done"
  /\ \A i \in 1..Len(results[p]) :
       results[p][i].success \/ results[p][i].error[1] # "RenameFailed"

\* C24: after a real batch in which no copy and no delete call threw, every
\* content the store held before the batch is still held under some key,
\* and the store holds as many objects as before.
C24_NoContentLost ==
  \A p \in Procs :
    BatchDoneWithoutThrow(p) =>
      /\ \A k \in Objects(bucket0[p]) : \E k2 \in Objects(store) : store[k2] = bucket0[p][k]
      /\ Cardinality(Objects(store)) = Cardinality(Objects(bucket0[p]))

(***************************************************************************)
(* Properties of concurrent renames.                                       *)
(***************************************************************************)
\* the step in which the copy of p's rename returns
CopyDone(p) == op[p] = "rename" /\ pc[p] = "copy" /\ pc'[p] = "delete"

\* C25: when two renames interleave at their remote calls, the copy of a
\* rename whose destination differs from its source never replaces the
\* content of an object that is at the destination: the destination is
\* empty when the copy is done.
C25_ConcurrentRenamesNeverOverwrite ==
  [][ \A p \in Procs :
        (CopyDone(p) /\ oldKey[p] # newKey[p]) =>
          (store[newKey[p]] = Absent \/ store'[newKey[p]] = store[newKey[p]]) ]_vars

(***************************************************************************)
(* Properties of a rename that is run again.                               *)
(***************************************************************************)
\* renameFile has resolved for the second rule of a batch whose two rules are
\* the same; the first run failed when its delete threw, leaving the object
\* under both keys, and no remote call of the second run threw
RetriedAfterDeleteFailure(p) ==
  /\ AtRenameReturn(p) /\ ~dryRun[p] /\ idx[p] = 2
  /\ rules[p][1] = rules[p][2]
  /\ results[p][1].error = <<"RenameFailed", "delete">>
  /\ oldKey[p] # newKey[p]
  /\ store0[p][oldKey[p]] # Absent /\ store0[p][newKey[p]] # Absent
  /\ thrown[p] = "none"

\* C26: running a rename rule again after it failed in its delete phase
\* completes the rename: the second run reports success, the old key holds
\* no object and the new key holds the object.
C26_RetryCompletesRename ==
  \A p \in Procs :
    RetriedAfterDeleteFailure(p) =>
      /\ res[p].success
      /\ store[oldKey[p]] = Absent
      /\ store[newKey[p]] # Absent

(***************************************************************************)
(* Properties of the HTTP server.                                          *)
(***************************************************************************)
\* C27: whenever an SSE client is connected the transport slot is not null,
\* and a POST /messages is answered with 400 only when no SSE client was
\* connected.
C27_SlotHeldWhileClientConnected ==
  /\ connected # {} => sseTransport # NoTransport
  /\ posted.status = "400" => posted.clients = {}

(***************************************************************************)
(* Properties of download_file and the files that are already there.       *)
(***************************************************************************)
\* the call found a file at its target path when it started
FoundFile(p) == op[p] = "download" /\ download[p].before # NoFile

\* C28: a download_file call that found a file at its target path fails with
\* the file-exists error, makes no request and never writes or unlinks; and
\* of two calls with the same target path at most one writes the file.
C28_ExistingFileUntouched ==
  /\ \A p \in Procs :
       FoundFile(p) =>
         /\ pc[p] = "done"
         /\ response[p] = DownloadError("FileExists")
         /\ download[p].req1 = "none" /\ ~download[p].wrote
  /\ \A p, q \in Procs :
       (p # q /\ op[p] = "download" /\ op[q] = "download"
        /\ filePath(p) = filePath(q))
         => ~(download[p].wrote /\ download[q].wrote)

(***************************************************************************)
(* Properties of uploadFile.                                               *)
(***************************************************************************)
\* d without its leading and trailing separators
Trimmed(d) ==
  LET kept == { i \in 1..Len(d) : d[i] # "/" }
  IN IF kept = {} THEN <<>>
     ELSE SubSeq(d, CHOOSE i \in kept : \A j \in kept : i <= j,
                    CHOOSE i \in kept : \A j \in kept : j <= i)

\* the part of a local path after its last separator
LastSegment(fp) ==
  LET seps == { i \in 1..Len(fp) : fp[i] = "/" }
  IN IF seps = {} THEN fp
     ELSE SubSeq(fp, (CHOOSE i \in seps : \A j \in seps : j <= i) + 1, Len(fp))

\* the object key the upload is to be stored under
ExpectedKey(p) ==
  LET name == IF upload[p].fileName # <<>> THEN upload[p].fileName
              ELSE LastSegment(upload[p].filePath)
  IN IF Trimmed(directory[p]) = <<>> THEN name
     ELSE Trimmed(directory[p]) \o <<"/">> \o name

\* C29: an upload issues a put only when the local file exists and a client
\* is available, and then the put is its only call and its key is the file
\* name under the trimmed target directory; otherwise the upload fails and
\* has issued no remote call and left the store as it was.
C29_PutOnlyWithFileAndClient ==
  \A p \in Procs :
    op[p] = "upload" =>
      /\ calls[p] # <<>> =>
           /\ upload[p].exists /\ client[p] # NoClient
           /\ calls[p] = <<Call("put", ExpectedKey(p))>>
      /\ (pc[p] = "done" /\ (~upload[p].exists \/ client[p] = NoClient)) =>
           /\ response[p].isError
           /\ calls[p] = <<>>
           /\ store = store0[p]
      /\ (pc[p] = "done" /\ ~response[p].isError) =>
           store[ExpectedKey(p)] = LocalContent

\* an upload without fileName into "//d//" has stored the file under d/a
C29_Witness ==
  \E p \in Procs :
    /\ op[p] = "upload" /\ pc[p] = "done" /\ ~response[p].isError
    /\ directory[p] = <<"/", "/", "d", "/", "/">>
    /\ upload[p].fileName = <<>>
    /\ calls[p] = <<Call("put", <<"d", "/", "a">>)>>
    /\ store[<<"d", "/", "a">>] = LocalContent

====
